---- MODULE Spec2Model ----
(***************************************************************************)
(* Model of the Flux CRM backend (src/backend/server.py): the lead and     *)
(* organization collections, the derived-metrics calculator and the        *)
(* dashboard / geography aggregations.                                     *)
(*                                                                         *)
(* Units.  Money is counted in mills (1/1000 of a currency unit) so that   *)
(* round(x, 2) is a real conversion: a value rounded to two decimals is a  *)
(* multiple of 10 mills.  Data loads are counted in hundredths of a GB,    *)
(* percentages (win_rate, avg_probability) in tenths.  Python's float      *)
(* arithmetic is modelled by exact rational arithmetic; round() rounds     *)
(* half to even.  At an exact decimal tie Python decides by the binary     *)
(* value of the float; the rounding properties below only require a        *)
(* nearest value, which covers both outcomes.                              *)
(*                                                                         *)
(* Every route depends on get_current_user; the model takes the caller to  *)
(* be an authenticated, active user.                                       *)
(*                                                                         *)
(* Documents carry the fields the modelled routes read or write; names,    *)
(* codes and timestamps are left out.                                      *)
(***************************************************************************)
EXTENDS Integers, Sequences, FiniteSets, TLC

\* ------------------------------------------------------------------ bounds
\* uuid4() never runs out; each specification caps the number of documents
\* it creates.
MaxLeads == 3
MaxOrgs == 2
MaxVolume == 1
MaxCalcPrice == 9
MaxCalcVolume == 9
MaxStages == 1         \* custom lead stages created in a behaviour
MaxUsers == 3          \* register calls that reach count_documents
MaxLabels == 2         \* custom labels created per registry under interleaving

\* ------------------------------------------------- configuration constants
AVG_SCAN_SIZE_MB == 15
TO_LIST_LENGTH == 1000

INDIAN_STATES ==
    << "Andhra Pradesh", "Arunachal Pradesh", "Assam", "Bihar", "Chhattisgarh",
       "Goa", "Gujarat", "Haryana", "Himachal Pradesh", "Jharkhand", "Karnataka",
       "Kerala", "Madhya Pradesh", "Maharashtra", "Manipur", "Meghalaya", "Mizoram",
       "Nagaland", "Odisha", "Punjab", "Rajasthan", "Sikkim", "Tamil Nadu",
       "Telangana", "Tripura", "Uttar Pradesh", "Uttarakhand", "West Bengal",
       "Delhi", "Jammu and Kashmir", "Ladakh", "Puducherry", "Chandigarh" >>

DEFAULT_LEAD_STAGES ==
    << [id |-> "stage-identified", name |-> "IDENTIFIED", order |-> 1],
       [id |-> "stage-qualified",  name |-> "QUALIFIED",  order |-> 2],
       [id |-> "stage-demo",       name |-> "DEMO",       order |-> 3],
       [id |-> "stage-pilot",      name |-> "PILOT",      order |-> 4],
       [id |-> "stage-commercial", name |-> "COMMERCIAL", order |-> 5],
       [id |-> "stage-closed",     name |-> "CLOSED",     order |-> 6] >>

DEFAULT_ORG_TYPES ==
    << [id |-> "default-hospital",  name |-> "HOSPITAL"],
       [id |-> "default-ngo",       name |-> "NGO"],
       [id |-> "default-govt",      name |-> "GOVT"],
       [id |-> "default-corporate", name |-> "CORPORATE"] >>

\* ---------------------------------------------------------------- strings
\* str.upper() on the names the model uses; a name without an entry is
\* already upper case.
UpperCaseOf ==
    [ name \in { "Negotiation", "negotiation", "demo", "Clinic", "clinic", "ngo" } |->
        CASE name \in { "Negotiation", "negotiation" } -> "NEGOTIATION"
          [] name = "demo" -> "DEMO"
          [] name \in { "Clinic", "clinic" } -> "CLINIC"
          [] name = "ngo" -> "NGO" ]

upper(name) == IF name \in DOMAIN UpperCaseOf THEN UpperCaseOf[name] ELSE name

\* str(uuid.uuid4()): the n-th identifier issued for a registry collection
uuid4(n) == "uuid-" \o ToString(n)

\* the text that follows the prefix in the identifiers of the model
IdTails ==
    { "hospital", "ngo", "govt", "corporate", "identified", "qualified", "demo",
      "pilot", "commercial", "closed" } \cup { ToString(n) : n \in 1 .. 9 }

startswith_slip(s, prefix) ==
    \E tail \in { "hospital", "ngo", "govt", "corporate", "identified", "qualified",
                   "demo", "pilot", "commercial", "closed" } : s = prefix \o tail

\* s.startswith(prefix)
startswith(s, prefix) == \E tail \in IdTails : s = prefix \o tail

\* ---------------------------------------------------------------- optionals
\* Python's None and a present value v of an Optional field.
None == << >>
Some(v) == << v >>
Val(o) == o[1]

\* Python truthiness of an Optional number: None and 0 are falsy.
Truthy(o) == o # None /\ Val(o) # 0

\* ------------------------------------------------------------------- state
VARIABLES
    organizations,  \* db.organizations: id -> document
    leads,          \* db.leads: id -> document
    lead_stages,    \* db.lead_stages: id -> document (custom stages)
    milestones,     \* db.milestones: id -> document
    documents,      \* db.documents: id -> document
    lead_notes,     \* db.lead_notes: id -> document
    users,          \* db.users: id -> document
    org_types,      \* db.org_types: id -> document (custom types)
    requests,       \* requests suspended at an await: request id -> frame
    failing,        \* the store queries that currently raise (store faults)
    sales_flow,     \* db.sales_flow: id -> document
    uuids,          \* number of uuid4() identifiers issued per collection
    response        \* the HTTP response of the last request

vars == << organizations, leads, lead_stages, milestones, documents, lead_notes,
          users, org_types, requests, failing, sales_flow, uuids, response >>

\* the state outside the lead / organization records
platform == << users, org_types, requests, failing, sales_flow >>

\* ----------------------------------------------------------------- helpers
Range(s) == { s[i] : i \in DOMAIN s }

RECURSIVE SumF(_, _)
SumF(f, S) ==
    IF S = {} THEN 0
    ELSE LET x == CHOOSE y \in S : TRUE IN f[x] + SumF(f, S \ {x})

\* round-half-even of the non-negative rational n / d to an integer
RoundDiv(n, d) ==
    LET q == n \div d
        r == n % d
    IN  IF 2 * r < d THEN q
        ELSE IF 2 * r > d THEN q + 1
        ELSE IF q % 2 = 0 THEN q ELSE q + 1

\* round(x, 2) of a money amount in mills; the result is in mills.
Round2Money(x) == 10 * RoundDiv(x, 10)

HttpError(code, detail) == [status |-> code, kind |-> "error", detail |-> detail]
Ok(kind, body) == [status |-> 200, kind |-> kind, body |-> body]

\* an empty collection of the document store
EmptyCollection == [id \in {} |-> id]

\* cursor.to_list(length): at most `length` documents, in store order
to_list(ids, length) ==
    IF Cardinality(ids) <= length THEN ids
    ELSE CHOOSE T \in SUBSET ids : Cardinality(T) = length

Init ==
    /\ organizations = EmptyCollection
    /\ leads = EmptyCollection
    /\ lead_stages = EmptyCollection
    /\ milestones = EmptyCollection
    /\ documents = EmptyCollection
    /\ lead_notes = EmptyCollection
    /\ users = EmptyCollection
    /\ org_types = EmptyCollection
    /\ requests = EmptyCollection
    /\ failing = {}
    /\ sales_flow = EmptyCollection
    /\ uuids = [org |-> 0, lead |-> 0, user |-> 0, org_type |-> 0, stage |-> 0,
                note |-> 0, milestone |-> 0, document |-> 0, flow |-> 0]
    /\ response = [status |-> 0, kind |-> "none"]

\* ------------------------------------------------ derived-metrics calculator
calculate_revenue_and_load_slip(price, volume) ==
    LET monthly_revenue == IF price # 0 /\ volume # 0 THEN price * volume ELSE 0
        annual_revenue == price * 12
        daily_num == (IF volume # 0 THEN volume ELSE 0) * AVG_SCAN_SIZE_MB
        monthly_num == IF volume # 0 THEN volume * AVG_SCAN_SIZE_MB ELSE 0
    IN  [ monthly_revenue |-> Round2Money(monthly_revenue),
          annual_revenue |-> Round2Money(annual_revenue),
          daily_data_load_gb |-> RoundDiv(daily_num * 100, 30 * 1024),
          monthly_data_load_gb |-> RoundDiv(monthly_num * 100, 1024) ]

\* price in mills, volume in scans per month.
calculate_revenue_and_load(price, volume) ==
    LET monthly_revenue == IF price # 0 /\ volume # 0 THEN price * volume ELSE 0
        annual_revenue == monthly_revenue * 12
        \* daily_scans = volume / 30; the loads are kept as numerators in MB
        daily_num == (IF volume # 0 THEN volume ELSE 0) * AVG_SCAN_SIZE_MB
        monthly_num == IF volume # 0 THEN volume * AVG_SCAN_SIZE_MB ELSE 0
    IN  [ monthly_revenue |-> Round2Money(monthly_revenue),
          annual_revenue |-> Round2Money(annual_revenue),
          daily_data_load_gb |-> RoundDiv(daily_num * 100, 30 * 1024),
          monthly_data_load_gb |-> RoundDiv(monthly_num * 100, 1024) ]

\* lead.get("agreed_price") or lead.get("offered_price") or 0
enrich_price(lead) ==
    IF Truthy(lead.agreed_price) THEN Val(lead.agreed_price)
    ELSE IF Truthy(lead.offered_price) THEN Val(lead.offered_price)
    ELSE 0

\* lead.get("expected_volume") or 0
enrich_volume(lead) ==
    IF Truthy(lead.expected_volume) THEN Val(lead.expected_volume) ELSE 0

enrich_lead_response(lead, org) ==
    [ lead |-> lead,
      organization_type |-> IF org # None THEN Some(Val(org).type) ELSE None,
      computed |-> calculate_revenue_and_load(enrich_price(lead), enrich_volume(lead)) ]

\* db.organizations.find_one({"id": org_id})
find_org(org_id) ==
    IF org_id \in DOMAIN organizations THEN Some(organizations[org_id]) ELSE None

\* ------------------------------------------------------ organization routes
create_organization(org) ==
    /\ LET org_id == uuids.org + 1
           org_doc == [id |-> org_id, type |-> org.type, state |-> org.state]
       IN  /\ organizations' = (org_id :> org_doc) @@ organizations
           /\ uuids' = [uuids EXCEPT !.org = org_id]
           /\ response' = Ok("organization", [org |-> org_doc, lead_count |-> 0])
    /\ UNCHANGED << leads, lead_stages, milestones, documents, lead_notes, platform >>

\* db.leads.count_documents({"organization_id": org_id})
lead_count(org_id) == Cardinality({ l \in DOMAIN leads : leads[l].organization_id = org_id })

\* type / state are Optional query parameters; an empty string is falsy
get_organizations(type, state) ==
    /\ LET by_type == type # None /\ Val(type) # "" /\ Val(type) # "all"
           by_state == state # None /\ Val(state) # "" /\ Val(state) # "all"
           orgs == to_list({ o \in DOMAIN organizations :
                               /\ by_type => organizations[o].type = Val(type)
                               /\ by_state => organizations[o].state = Val(state) },
                           TO_LIST_LENGTH)
       IN  response' = Ok("organizations",
                          [ o \in orgs |-> [org |-> organizations[o],
                                            lead_count |-> lead_count(o)] ])
    /\ UNCHANGED << organizations, leads, lead_stages, milestones, documents, lead_notes,
                    uuids, platform >>

get_organization(org_id) ==
    /\ IF org_id \notin DOMAIN organizations
       THEN response' = HttpError(404, "Organization not found")
       ELSE response' = Ok("organization", [org |-> organizations[org_id],
                                            lead_count |-> lead_count(org_id)])
    /\ UNCHANGED << organizations, leads, lead_stages, milestones, documents, lead_notes,
                    uuids, platform >>

OrganizationUpdateFields == { "type", "state" }

\* {k: v for k, v in org.model_dump().items() if v is not None}
org_update_data(org) == { k \in OrganizationUpdateFields : org[k] # None }

update_organization_slip(org_id, org) ==
    IF org_update_data(org) = {}
    THEN /\ response' = HttpError(400, "No update data")
         /\ UNCHANGED << organizations, leads, lead_stages, milestones, documents,
                         lead_notes, uuids, platform >>
    ELSE IF org_id \notin DOMAIN organizations
    THEN /\ response' = HttpError(404, "Organization not found")
         /\ UNCHANGED << organizations, leads, lead_stages, milestones, documents,
                         lead_notes, uuids, platform >>
    ELSE LET updated == [ k \in DOMAIN organizations[org_id] |->
                            IF k \in org_update_data(org) THEN Val(org[k])
                            ELSE organizations[org_id][k] ]
         IN  /\ organizations' = [organizations EXCEPT ![org_id] = updated]
             /\ response' = Ok("organization", [org |-> updated, lead_count |-> 0])
             /\ UNCHANGED << leads, lead_stages, milestones, documents, lead_notes,
                             uuids, platform >>

update_organization(org_id, org) ==
    IF org_update_data(org) = {}
    THEN /\ response' = HttpError(400, "No update data")
         /\ UNCHANGED << organizations, leads, lead_stages, milestones, documents,
                         lead_notes, uuids, platform >>
    ELSE IF org_id \notin DOMAIN organizations
    THEN /\ response' = HttpError(404, "Organization not found")
         /\ UNCHANGED << organizations, leads, lead_stages, milestones, documents,
                         lead_notes, uuids, platform >>
    ELSE LET updated == [ k \in DOMAIN organizations[org_id] |->
                            IF k \in org_update_data(org) THEN Val(org[k])
                            ELSE organizations[org_id][k] ]
         IN  /\ organizations' = [organizations EXCEPT ![org_id] = updated]
             /\ response' = Ok("organization", [org |-> updated,
                                                 lead_count |-> lead_count(org_id)])
             /\ UNCHANGED << leads, lead_stages, milestones, documents, lead_notes,
                             uuids, platform >>

delete_organization(org_id) ==
    /\ IF org_id \in DOMAIN organizations
       THEN /\ organizations' = [o \in DOMAIN organizations \ {org_id} |-> organizations[o]]
            /\ response' = Ok("message", "Organization deleted")
       ELSE /\ UNCHANGED organizations
            /\ response' = HttpError(404, "Organization not found")
    /\ UNCHANGED << leads, lead_stages, milestones, documents, lead_notes, uuids, platform >>

\* -------------------------------------------------------------- lead routes
create_lead(lead) ==
    LET org == find_org(lead.organization_id)
    IN  IF org = None
        THEN /\ response' = HttpError(404, "Organization not found")
             /\ UNCHANGED << organizations, leads, lead_stages, milestones, documents, lead_notes, uuids, platform >>
        ELSE /\ LET lead_id == uuids.lead + 1
                    lead_doc == [ id |-> lead_id,
                                  lead_code |-> "LEAD-" \o ToString(lead_id),
                                  organization_id |-> lead.organization_id,
                                  offered_price |-> lead.offered_price,
                                  agreed_price |-> lead.agreed_price,
                                  expected_volume |-> lead.expected_volume,
                                  stage |-> lead.stage,
                                  probability |-> lead.probability,
                                  status |-> lead.status ]
                IN  /\ leads' = (lead_id :> lead_doc) @@ leads
                    /\ uuids' = [uuids EXCEPT !.lead = lead_id]
                    /\ response' = Ok("lead", enrich_lead_response(lead_doc, org))
             /\ UNCHANGED << organizations, lead_stages, milestones, documents, lead_notes,
                             platform >>

get_lead(lead_id) ==
    /\ IF lead_id \notin DOMAIN leads
       THEN response' = HttpError(404, "Lead not found")
       ELSE LET lead == leads[lead_id]
                org == find_org(lead.organization_id)
            IN  response' = Ok("lead", enrich_lead_response(lead, org))
    /\ UNCHANGED << organizations, leads, lead_stages, milestones, documents, lead_notes, uuids, platform >>

\* get_leads with the status, organization_id and state filters (None: not
\* given); the state filter replaces the organization_id criterion by the
\* ids of the organizations of that state.
get_leads(status, organization_id, state) ==
    LET orgs_in_state ==
            to_list({ o \in DOMAIN organizations :
                        state # None /\ organizations[o].state = Val(state) },
                    TO_LIST_LENGTH)
        Matches(d) ==
            /\ status # None => d.status = Val(status)
            /\ IF state # None /\ Val(state) # "all"
               THEN d.organization_id \in orgs_in_state
               ELSE organization_id # None => d.organization_id = Val(organization_id)
        found == to_list({ l \in DOMAIN leads : Matches(leads[l]) }, TO_LIST_LENGTH)
    IN  /\ response' = Ok("leads",
                          [ l \in found |->
                              enrich_lead_response(leads[l],
                                                   find_org(leads[l].organization_id)) ])
        /\ UNCHANGED << organizations, leads, lead_stages, milestones, documents, lead_notes, uuids, platform >>

\* LeadUpdate fields that can be set; a field left None is not supplied.
LeadUpdateFields ==
    { "offered_price", "agreed_price", "expected_volume", "stage", "probability", "status" }

update_data_slip(update) ==
    { k \in DOMAIN update : update[k] # None \/ k \in { "agreed_price", "custom_name" } }

\* {k: v for k, v in lead.model_dump().items() if v is not None}
update_data(update) == { k \in DOMAIN update : update[k] # None }

apply_set_slip(doc, update) ==
    [ k \in DOMAIN doc |->
        IF k \in {"offered_price", "agreed_price", "expected_volume", "custom_name"}
        THEN (IF k \in DOMAIN update THEN update[k] ELSE doc[k])
        ELSE (IF k \in update_data(update) THEN Val(update[k]) ELSE doc[k]) ]

\* {"$set": update_data} on one document: Optional document fields keep
\* their Optional wrapping, the others take the bare value.
apply_set(doc, update) ==
    [ k \in DOMAIN doc |->
        IF k \in update_data(update)
        THEN (IF k \in {"offered_price", "agreed_price", "expected_volume", "custom_name"}
              THEN update[k] ELSE Val(update[k]))
        ELSE doc[k] ]

update_lead(lead_id, update) ==
    IF update_data(update) = {}
    THEN /\ response' = HttpError(400, "No update data")
         /\ UNCHANGED << organizations, leads, lead_stages, milestones, documents, lead_notes, uuids, platform >>
    ELSE IF lead_id \notin DOMAIN leads
    THEN /\ response' = HttpError(404, "Lead not found")
         /\ UNCHANGED << organizations, leads, lead_stages, milestones, documents, lead_notes, uuids, platform >>
    ELSE LET updated == apply_set(leads[lead_id], update)
             org == find_org(updated.organization_id)
         IN  /\ leads' = [leads EXCEPT ![lead_id] = updated]
             /\ response' = Ok("lead", enrich_lead_response(updated, org))
             /\ UNCHANGED << organizations, lead_stages, milestones, documents, lead_notes, uuids, platform >>

delete_many_slip(collection, lead_id) ==
    IF \E c \in DOMAIN collection : collection[c].lead_id = lead_id
    THEN LET one == CHOOSE c \in DOMAIN collection : collection[c].lead_id = lead_id
         IN  [ d \in DOMAIN collection \ { one } |-> collection[d] ]
    ELSE collection

\* collection.delete_many({"lead_id": lead_id})
delete_many(collection, lead_id) ==
    [ d \in { c \in DOMAIN collection : collection[c].lead_id # lead_id } |-> collection[d] ]

delete_lead(lead_id) ==
    /\ IF lead_id \in DOMAIN leads
       THEN /\ leads' = [l \in DOMAIN leads \ {lead_id} |-> leads[l]]
            /\ milestones' = delete_many(milestones, lead_id)
            /\ documents' = delete_many(documents, lead_id)
            /\ lead_notes' = delete_many(lead_notes, lead_id)
            /\ response' = Ok("message", "Lead deleted")
       ELSE /\ UNCHANGED << leads, milestones, documents, lead_notes >>
            /\ response' = HttpError(404, "Lead not found")
    /\ UNCHANGED << organizations, lead_stages, uuids, platform >>

\* -------------------------------------------------------------- auth routes
\* db.users.find_one({"email": email}) as a truth value
find_one_email(email) == \E u \in DOMAIN users : users[u].email = email

\* hash_password: a bcrypt digest, told apart from the password it was made
\* of; verify_password accepts exactly the password the digest was made of
hash_password(password) == << "bcrypt", password >>

verify_password(password, hashed) == hashed = hash_password(password)

\* UserResponse: the fields of a user document that a response carries
UserResponse(doc) ==
    [id |-> doc.id, email |-> doc.email, role |-> doc.role, is_active |-> doc.is_active]

\* create_token: the token carries the user id as `sub`
create_token(user_id) == [sub |-> user_id]

\* the handler run without another request between its awaits
register(user) ==
    IF find_one_email(user.email)
    THEN /\ response' = HttpError(400, "Email already registered")
         /\ UNCHANGED << organizations, leads, lead_stages, milestones, documents,
                         lead_notes, uuids, platform >>
    ELSE LET user_count == Cardinality(DOMAIN users)
             user_id == uuids.user + 1
             role == IF user_count = 0 THEN "admin" ELSE "user"
             user_doc == [id |-> user_id, email |-> user.email,
                          password |-> hash_password(user.password), role |-> role,
                          is_active |-> TRUE]
         IN  /\ users' = (user_id :> user_doc) @@ users
             /\ uuids' = [uuids EXCEPT !.user = user_id]
             /\ response' = Ok("token", [access_token |-> create_token(user_id),
                                         user |-> UserResponse(user_doc)])
             /\ UNCHANGED << organizations, leads, lead_stages, milestones, documents,
                             lead_notes, org_types, requests, failing, sales_flow >>

\* register, one step per await; request r is suspended between the steps.
\* `existing = await db.users.find_one(...)` and the 400 that follows it
register_find_one(r, user) ==
    /\ r \notin DOMAIN requests
    /\ IF find_one_email(user.email)
       THEN /\ response' = HttpError(400, "Email already registered")
            /\ UNCHANGED requests
       ELSE /\ requests' = (r :> [route |-> "register", pc |-> "count_documents",
                                  email |-> user.email,
                                  password |-> user.password]) @@ requests
            /\ UNCHANGED response
    /\ UNCHANGED << organizations, leads, lead_stages, milestones, documents, lead_notes,
                    users, org_types, failing, uuids, sales_flow >>

\* `user_count = await db.users.count_documents({})`, then the document is built
register_count_documents(r) ==
    /\ r \in DOMAIN requests
    /\ requests[r].route = "register"
    /\ requests[r].pc = "count_documents"
    /\ LET user_count == Cardinality(DOMAIN users)
           user_id == uuids.user + 1
           role == IF user_count = 0 THEN "admin" ELSE "user"
           user_doc == [id |-> user_id, email |-> requests[r].email,
                        password |-> hash_password(requests[r].password),
                        role |-> role, is_active |-> TRUE]
       IN  /\ requests' = [requests EXCEPT ![r] =
                              [route |-> "register", pc |-> "insert_one", doc |-> user_doc]]
           /\ uuids' = [uuids EXCEPT !.user = user_id]
    /\ UNCHANGED << organizations, leads, lead_stages, milestones, documents, lead_notes,
                    users, org_types, failing, response, sales_flow >>

\* `await db.users.insert_one(user_doc)`, then the response
register_insert_one(r) ==
    /\ r \in DOMAIN requests
    /\ requests[r].route = "register"
    /\ requests[r].pc = "insert_one"
    /\ LET user_doc == requests[r].doc
       IN  /\ users' = (user_doc.id :> user_doc) @@ users
           /\ response' = Ok("token", [access_token |-> create_token(user_doc.id),
                                       user |-> UserResponse(user_doc)])
    /\ requests' = [q \in DOMAIN requests \ {r} |-> requests[q]]
    /\ UNCHANGED << organizations, leads, lead_stages, milestones, documents, lead_notes,
                    org_types, failing, uuids, sales_flow >>

\* login: the stored user with the email (any one of them, should several
\* share it), the password check first and the is_active check after it
login(user) ==
    /\ IF ~ find_one_email(user.email)
       THEN response' = HttpError(401, "Invalid credentials")
       ELSE \E u \in DOMAIN users :
                /\ users[u].email = user.email
                /\ IF ~ verify_password(user.password, users[u].password)
                   THEN response' = HttpError(401, "Invalid credentials")
                   ELSE IF ~ users[u].is_active
                   THEN response' = HttpError(403, "Account deactivated")
                   ELSE response' = Ok("token", [access_token |-> create_token(u),
                                                 user |-> UserResponse(users[u])])
    /\ UNCHANGED << organizations, leads, lead_stages, milestones, documents, lead_notes,
                    uuids, platform >>

get_current_user_slip(credentials) ==
    IF credentials.sub \notin DOMAIN users
    THEN [user |-> None, error |-> HttpError(401, "User not found")]
    ELSE [user |-> Some(users[credentials.sub]), error |-> None]

\* get_current_user: the account the token names, looked up on every request
get_current_user(credentials) ==
    IF credentials.sub \notin DOMAIN users
    THEN [user |-> None, error |-> HttpError(401, "User not found")]
    ELSE IF ~ users[credentials.sub].is_active
    THEN [user |-> None, error |-> HttpError(403, "Account deactivated")]
    ELSE [user |-> Some(users[credentials.sub]), error |-> None]

require_admin_slip(credentials) ==
    LET current == get_current_user(credentials)
    IN  IF current.user # None /\ Val(current.user).role = "user"
        THEN [user |-> None, error |-> HttpError(403, "Admin access required")]
        ELSE current

require_admin(credentials) ==
    LET current == get_current_user(credentials)
    IN  IF current.user # None /\ Val(current.user).role # "admin"
        THEN [user |-> None, error |-> HttpError(403, "Admin access required")]
        ELSE current

\* get_me: the caller's own account
get_me(credentials) ==
    /\ LET current == get_current_user(credentials)
       IN  IF current.user = None
           THEN response' = current.error
           ELSE response' = Ok("user", UserResponse(Val(current.user)))
    /\ UNCHANGED << organizations, leads, lead_stages, milestones, documents, lead_notes,
                    uuids, platform >>

\* -------------------------------------------------------------- team routes
get_team_members(credentials) ==
    /\ LET admin == require_admin(credentials)
       IN  IF admin.user = None
           THEN response' = admin.error
           ELSE response' = Ok("team", to_list(DOMAIN users, TO_LIST_LENGTH))
    /\ UNCHANGED << organizations, leads, lead_stages, milestones, documents, lead_notes,
                    uuids, platform >>

invite_team_member(member, credentials) ==
    LET admin == require_admin(credentials)
    IN  IF admin.user = None
        THEN /\ response' = admin.error
             /\ UNCHANGED << organizations, leads, lead_stages, milestones, documents,
                             lead_notes, uuids, platform >>
        ELSE IF find_one_email(member.email)
        THEN /\ response' = HttpError(400, "Email already registered")
             /\ UNCHANGED << organizations, leads, lead_stages, milestones, documents,
                             lead_notes, uuids, platform >>
        ELSE LET user_id == uuids.user + 1
                 user_doc == [id |-> user_id, email |-> member.email,
                              password |-> hash_password(member.password),
                              role |-> member.role, is_active |-> TRUE]
             IN  /\ users' = (user_id :> user_doc) @@ users
                 /\ uuids' = [uuids EXCEPT !.user = user_id]
                 /\ response' = Ok("user", UserResponse(user_doc))
                 /\ UNCHANGED << organizations, leads, lead_stages, milestones, documents,
                                 lead_notes, org_types, requests, failing, sales_flow >>

\* invite_team_member, one step per await: the dependency require_admin (its
\* get_current_user awaits db.users.find_one), which hands `user` to the route
invite_team_member_require_admin(r, member, credentials) ==
    /\ r \notin DOMAIN requests
    /\ LET admin == require_admin(credentials)
       IN  IF admin.user = None
           THEN /\ response' = admin.error
                /\ UNCHANGED requests
           ELSE /\ requests' = (r :> [route |-> "invite_team_member", pc |-> "find_one",
                                      member |-> member, user |-> Val(admin.user)])
                                    @@ requests
                /\ UNCHANGED response
    /\ UNCHANGED << organizations, leads, lead_stages, milestones, documents, lead_notes,
                    users, org_types, failing, uuids, sales_flow >>

\* `existing = await db.users.find_one({"email": member.email})`, the 400
\* that follows it, and the document built when there is none
invite_team_member_find_one(r) ==
    /\ r \in DOMAIN requests
    /\ requests[r].route = "invite_team_member"
    /\ requests[r].pc = "find_one"
    /\ LET member == requests[r].member
       IN  IF find_one_email(member.email)
           THEN /\ response' = HttpError(400, "Email already registered")
                /\ requests' = [q \in DOMAIN requests \ {r} |-> requests[q]]
                /\ UNCHANGED uuids
           ELSE LET user_id == uuids.user + 1
                    user_doc == [id |-> user_id, email |-> member.email,
                                 password |-> hash_password(member.password),
                                 role |-> member.role, is_active |-> TRUE]
                IN  /\ requests' = [requests EXCEPT ![r] =
                                       [route |-> "invite_team_member", pc |-> "insert_one",
                                        doc |-> user_doc]]
                    /\ uuids' = [uuids EXCEPT !.user = user_id]
                    /\ UNCHANGED response
    /\ UNCHANGED << organizations, leads, lead_stages, milestones, documents, lead_notes,
                    users, org_types, failing, sales_flow >>

\* `await db.users.insert_one(member_doc)`, then the response
invite_team_member_insert_one(r) ==
    /\ r \in DOMAIN requests
    /\ requests[r].route = "invite_team_member"
    /\ requests[r].pc = "insert_one"
    /\ users' = (requests[r].doc.id :> requests[r].doc) @@ users
    /\ response' = Ok("user", UserResponse(requests[r].doc))
    /\ requests' = [q \in DOMAIN requests \ {r} |-> requests[q]]
    /\ UNCHANGED << organizations, leads, lead_stages, milestones, documents, lead_notes,
                    org_types, failing, uuids, sales_flow >>

TeamMemberUpdateFields == { "is_active", "role" }

\* {k: v for k, v in update.model_dump().items() if v is not None}
member_update_data(update) == { k \in TeamMemberUpdateFields : update[k] # None }

update_team_member(member_id, update, credentials) ==
    LET admin == require_admin(credentials)
    IN  IF admin.user = None
        THEN /\ response' = admin.error
             /\ UNCHANGED << organizations, leads, lead_stages, milestones, documents,
                             lead_notes, uuids, platform >>
        ELSE IF member_id = Val(admin.user).id
        THEN /\ response' = HttpError(400, "Cannot modify your own account")
             /\ UNCHANGED << organizations, leads, lead_stages, milestones, documents,
                             lead_notes, uuids, platform >>
        ELSE IF member_update_data(update) = {}
        THEN /\ response' = HttpError(400, "No update data")
             /\ UNCHANGED << organizations, leads, lead_stages, milestones, documents,
                             lead_notes, uuids, platform >>
        ELSE IF member_id \notin DOMAIN users
        THEN /\ response' = HttpError(404, "Member not found")
             /\ UNCHANGED << organizations, leads, lead_stages, milestones, documents,
                             lead_notes, uuids, platform >>
        ELSE LET updated == [ k \in DOMAIN users[member_id] |->
                                IF k \in member_update_data(update) THEN Val(update[k])
                                ELSE users[member_id][k] ]
             IN  /\ users' = [users EXCEPT ![member_id] = updated]
                 /\ response' = Ok("user", UserResponse(updated))
                 /\ UNCHANGED << organizations, leads, lead_stages, milestones, documents,
                                 lead_notes, org_types, requests, failing, uuids, sales_flow >>

remove_team_member(member_id, credentials) ==
    LET admin == require_admin(credentials)
    IN  IF admin.user = None
        THEN /\ response' = admin.error
             /\ UNCHANGED << organizations, leads, lead_stages, milestones, documents,
                             lead_notes, uuids, platform >>
        ELSE IF member_id = Val(admin.user).id
        THEN /\ response' = HttpError(400, "Cannot delete your own account")
             /\ UNCHANGED << organizations, leads, lead_stages, milestones, documents,
                             lead_notes, uuids, platform >>
        ELSE IF member_id \notin DOMAIN users
        THEN /\ response' = HttpError(404, "Member not found")
             /\ UNCHANGED << organizations, leads, lead_stages, milestones, documents,
                             lead_notes, uuids, platform >>
        ELSE /\ users' = [u \in DOMAIN users \ {member_id} |-> users[u]]
             /\ response' = Ok("message", "Member removed")
             /\ UNCHANGED << organizations, leads, lead_stages, milestones, documents,
                             lead_notes, org_types, requests, failing, uuids, sales_flow >>

\* update_team_member, one step per await: the dependency require_admin
update_team_member_require_admin(r, member_id, update, credentials) ==
    /\ r \notin DOMAIN requests
    /\ LET admin == require_admin(credentials)
       IN  IF admin.user = None
           THEN /\ response' = admin.error
                /\ UNCHANGED requests
           ELSE /\ requests' = (r :> [route |-> "update_team_member", pc |-> "update_one",
                                      member_id |-> member_id, update |-> update,
                                      user |-> Val(admin.user)]) @@ requests
                /\ UNCHANGED response
    /\ UNCHANGED << organizations, leads, lead_stages, milestones, documents, lead_notes,
                    users, org_types, failing, uuids, sales_flow >>

\* the two 400 checks, `await db.users.update_one(...)` and the 404 on its
\* matched_count
update_team_member_update_one(r) ==
    /\ r \in DOMAIN requests
    /\ requests[r].route = "update_team_member"
    /\ requests[r].pc = "update_one"
    /\ LET member_id == requests[r].member_id
           update == requests[r].update
           done == [q \in DOMAIN requests \ {r} |-> requests[q]]
       IN  IF member_id = requests[r].user.id
           THEN /\ response' = HttpError(400, "Cannot modify your own account")
                /\ requests' = done
                /\ UNCHANGED users
           ELSE IF member_update_data(update) = {}
           THEN /\ response' = HttpError(400, "No update data")
                /\ requests' = done
                /\ UNCHANGED users
           ELSE IF member_id \notin DOMAIN users
           THEN /\ response' = HttpError(404, "Member not found")
                /\ requests' = done
                /\ UNCHANGED users
           ELSE /\ users' = [users EXCEPT ![member_id] =
                               [ k \in DOMAIN users[member_id] |->
                                   IF k \in member_update_data(update) THEN Val(update[k])
                                   ELSE users[member_id][k] ]]
                /\ requests' = [requests EXCEPT ![r].pc = "find_one"]
                /\ UNCHANGED response
    /\ UNCHANGED << organizations, leads, lead_stages, milestones, documents, lead_notes,
                    org_types, failing, uuids, sales_flow >>

\* `updated = await db.users.find_one(...)`, then the response; when the
\* member was removed in between, `updated` is None and subscripting it
\* raises, which the framework answers with 500
update_team_member_find_one(r) ==
    /\ r \in DOMAIN requests
    /\ requests[r].route = "update_team_member"
    /\ requests[r].pc = "find_one"
    /\ IF requests[r].member_id \in DOMAIN users
       THEN response' = Ok("user", UserResponse(users[requests[r].member_id]))
       ELSE response' = HttpError(500, "Internal Server Error")
    /\ requests' = [q \in DOMAIN requests \ {r} |-> requests[q]]
    /\ UNCHANGED << organizations, leads, lead_stages, milestones, documents, lead_notes,
                    users, org_types, failing, uuids, sales_flow >>

\* remove_team_member, one step per await: the dependency require_admin
remove_team_member_require_admin(r, member_id, credentials) ==
    /\ r \notin DOMAIN requests
    /\ LET admin == require_admin(credentials)
       IN  IF admin.user = None
           THEN /\ response' = admin.error
                /\ UNCHANGED requests
           ELSE /\ requests' = (r :> [route |-> "remove_team_member", pc |-> "delete_one",
                                      member_id |-> member_id, user |-> Val(admin.user)])
                                    @@ requests
                /\ UNCHANGED response
    /\ UNCHANGED << organizations, leads, lead_stages, milestones, documents, lead_notes,
                    users, org_types, failing, uuids, sales_flow >>

\* the 400 check, `await db.users.delete_one(...)` and the response
remove_team_member_delete_one(r) ==
    /\ r \in DOMAIN requests
    /\ requests[r].route = "remove_team_member"
    /\ requests[r].pc = "delete_one"
    /\ LET member_id == requests[r].member_id
       IN  IF member_id = requests[r].user.id
           THEN /\ response' = HttpError(400, "Cannot delete your own account")
                /\ UNCHANGED users
           ELSE IF member_id \notin DOMAIN users
           THEN /\ response' = HttpError(404, "Member not found")
                /\ UNCHANGED users
           ELSE /\ users' = [u \in DOMAIN users \ {member_id} |-> users[u]]
                /\ response' = Ok("message", "Member removed")
    /\ requests' = [q \in DOMAIN requests \ {r} |-> requests[q]]
    /\ UNCHANGED << organizations, leads, lead_stages, milestones, documents, lead_notes,
                    org_types, failing, uuids, sales_flow >>

\* --------------------------------------------------------- lead note routes
create_lead_note(note) ==
    IF note.lead_id \notin DOMAIN leads
    THEN /\ response' = HttpError(404, "Lead not found")
         /\ UNCHANGED << organizations, leads, lead_stages, milestones, documents,
                         lead_notes, uuids, platform >>
    ELSE LET note_id == uuids.note + 1
             note_doc == [id |-> note_id, lead_id |-> note.lead_id,
                          content |-> note.content]
         IN  /\ lead_notes' = (note_id :> note_doc) @@ lead_notes
             /\ uuids' = [uuids EXCEPT !.note = note_id]
             /\ response' = Ok("lead_note", note_doc)
             /\ UNCHANGED << organizations, leads, lead_stages, milestones, documents,
                             platform >>

delete_lead_note(note_id) ==
    /\ IF note_id \in DOMAIN lead_notes
       THEN /\ lead_notes' = [n \in DOMAIN lead_notes \ {note_id} |-> lead_notes[n]]
            /\ response' = Ok("message", "Note deleted")
       ELSE /\ UNCHANGED lead_notes
            /\ response' = HttpError(404, "Note not found")
    /\ UNCHANGED << organizations, leads, lead_stages, milestones, documents, uuids,
                    platform >>

\* --------------------------------------------------------- milestone routes
create_milestone(milestone) ==
    IF milestone.lead_id \notin DOMAIN leads
    THEN /\ response' = HttpError(404, "Lead not found")
         /\ UNCHANGED << organizations, leads, lead_stages, milestones, documents,
                         lead_notes, uuids, platform >>
    ELSE LET milestone_id == uuids.milestone + 1
             milestone_doc == [id |-> milestone_id, lead_id |-> milestone.lead_id,
                               name |-> milestone.name, status |-> milestone.status]
         IN  /\ milestones' = (milestone_id :> milestone_doc) @@ milestones
             /\ uuids' = [uuids EXCEPT !.milestone = milestone_id]
             /\ response' = Ok("milestone", milestone_doc)
             /\ UNCHANGED << organizations, leads, lead_stages, documents, lead_notes,
                             platform >>

update_milestone(milestone_id, milestone) ==
    IF update_data(milestone) = {}
    THEN /\ response' = HttpError(400, "No update data")
         /\ UNCHANGED << organizations, leads, lead_stages, milestones, documents,
                         lead_notes, uuids, platform >>
    ELSE IF milestone_id \notin DOMAIN milestones
    THEN /\ response' = HttpError(404, "Milestone not found")
         /\ UNCHANGED << organizations, leads, lead_stages, milestones, documents,
                         lead_notes, uuids, platform >>
    ELSE LET updated == apply_set(milestones[milestone_id], milestone)
         IN  /\ milestones' = [milestones EXCEPT ![milestone_id] = updated]
             /\ response' = Ok("milestone", updated)
             /\ UNCHANGED << organizations, leads, lead_stages, documents, lead_notes,
                             uuids, platform >>

delete_milestone(milestone_id) ==
    /\ IF milestone_id \in DOMAIN milestones
       THEN /\ milestones' = [m \in DOMAIN milestones \ {milestone_id} |-> milestones[m]]
            /\ response' = Ok("message", "Milestone deleted")
       ELSE /\ UNCHANGED milestones
            /\ response' = HttpError(404, "Milestone not found")
    /\ UNCHANGED << organizations, leads, lead_stages, documents, lead_notes, uuids,
                    platform >>

\* ---------------------------------------------------------- document routes
create_document(doc) ==
    IF doc.lead_id \notin DOMAIN leads
    THEN /\ response' = HttpError(404, "Lead not found")
         /\ UNCHANGED << organizations, leads, lead_stages, milestones, documents,
                         lead_notes, uuids, platform >>
    ELSE LET doc_id == uuids.document + 1
             doc_data == [id |-> doc_id, lead_id |-> doc.lead_id, type |-> doc.type,
                          custom_name |-> doc.custom_name, status |-> doc.status]
         IN  /\ documents' = (doc_id :> doc_data) @@ documents
             /\ uuids' = [uuids EXCEPT !.document = doc_id]
             /\ response' = Ok("document", doc_data)
             /\ UNCHANGED << organizations, leads, lead_stages, milestones, lead_notes,
                             platform >>

update_document(doc_id, doc) ==
    IF update_data(doc) = {}
    THEN /\ response' = HttpError(400, "No update data")
         /\ UNCHANGED << organizations, leads, lead_stages, milestones, documents,
                         lead_notes, uuids, platform >>
    ELSE IF doc_id \notin DOMAIN documents
    THEN /\ response' = HttpError(404, "Document not found")
         /\ UNCHANGED << organizations, leads, lead_stages, milestones, documents,
                         lead_notes, uuids, platform >>
    ELSE LET updated == apply_set(documents[doc_id], doc)
         IN  /\ documents' = [documents EXCEPT ![doc_id] = updated]
             /\ response' = Ok("document", updated)
             /\ UNCHANGED << organizations, leads, lead_stages, milestones, lead_notes,
                             uuids, platform >>

delete_document(doc_id) ==
    /\ IF doc_id \in DOMAIN documents
       THEN /\ documents' = [d \in DOMAIN documents \ {doc_id} |-> documents[d]]
            /\ response' = Ok("message", "Document deleted")
       ELSE /\ UNCHANGED documents
            /\ response' = HttpError(404, "Document not found")
    /\ UNCHANGED << organizations, leads, lead_stages, milestones, lead_notes, uuids,
                    platform >>

\* -------------------------------------------------------- sales flow routes
create_sales_flow(flow) ==
    /\ LET flow_id == uuids.flow + 1
           flow_doc == [id |-> flow_id, player_type |-> flow.player_type,
                        step_number |-> flow.step_number, owner |-> flow.owner]
       IN  /\ sales_flow' = (flow_id :> flow_doc) @@ sales_flow
           /\ uuids' = [uuids EXCEPT !.flow = flow_id]
           /\ response' = Ok("sales_flow", flow_doc)
    /\ UNCHANGED << organizations, leads, lead_stages, milestones, documents, lead_notes,
                    users, org_types, requests, failing >>

update_sales_flow(flow_id, flow) ==
    IF update_data(flow) = {}
    THEN /\ response' = HttpError(400, "No update data")
         /\ UNCHANGED << organizations, leads, lead_stages, milestones, documents,
                         lead_notes, uuids, platform >>
    ELSE IF flow_id \notin DOMAIN sales_flow
    THEN /\ response' = HttpError(404, "Sales flow not found")
         /\ UNCHANGED << organizations, leads, lead_stages, milestones, documents,
                         lead_notes, uuids, platform >>
    ELSE LET updated == apply_set(sales_flow[flow_id], flow)
         IN  /\ sales_flow' = [sales_flow EXCEPT ![flow_id] = updated]
             /\ response' = Ok("sales_flow", updated)
             /\ UNCHANGED << organizations, leads, lead_stages, milestones, documents,
                             lead_notes, uuids, users, org_types, requests, failing >>

\* ---------------------------------------------------------------- registry
\* db.<collection>.find_one({"name": name}) as a truth value
find_one_name(collection, name) == \E d \in DOMAIN collection : collection[d].name = name

get_org_types ==
    Range(DEFAULT_ORG_TYPES) \cup { org_types[t] : t \in DOMAIN org_types }

create_org_type(org_type) ==
    LET existing == find_one_name(org_types, upper(org_type.name))
    IN  IF existing \/ \E t \in Range(DEFAULT_ORG_TYPES) : t.name = upper(org_type.name)
        THEN /\ response' = HttpError(400, "Type already exists")
             /\ UNCHANGED << organizations, leads, lead_stages, milestones, documents,
                             lead_notes, uuids, platform >>
        ELSE LET type_id == uuid4(uuids.org_type + 1)
                 type_doc == [id |-> type_id, name |-> upper(org_type.name)]
             IN  /\ org_types' = (type_id :> type_doc) @@ org_types
                 /\ uuids' = [uuids EXCEPT !.org_type = @ + 1]
                 /\ response' = Ok("org_type", type_doc)
                 /\ UNCHANGED << organizations, leads, lead_stages, milestones, documents,
                                 lead_notes, users, requests, failing, sales_flow >>

\* create_org_type, one step per await: the find_one and the check on it
create_org_type_find_one(r, org_type) ==
    /\ r \notin DOMAIN requests
    /\ LET existing == find_one_name(org_types, upper(org_type.name))
       IN  IF existing \/ \E t \in Range(DEFAULT_ORG_TYPES) : t.name = upper(org_type.name)
           THEN /\ response' = HttpError(400, "Type already exists")
                /\ UNCHANGED << requests, uuids >>
           ELSE LET type_id == uuid4(uuids.org_type + 1)
                    type_doc == [id |-> type_id, name |-> upper(org_type.name)]
                IN  /\ requests' = (r :> [route |-> "create_org_type",
                                          pc |-> "insert_one", doc |-> type_doc])
                                        @@ requests
                    /\ uuids' = [uuids EXCEPT !.org_type = @ + 1]
                    /\ UNCHANGED response
    /\ UNCHANGED << organizations, leads, lead_stages, milestones, documents, lead_notes,
                    users, org_types, failing, sales_flow >>

\* `await db.org_types.insert_one(type_doc)`, then the response
create_org_type_insert_one(r) ==
    /\ r \in DOMAIN requests
    /\ requests[r].route = "create_org_type"
    /\ requests[r].pc = "insert_one"
    /\ org_types' = (requests[r].doc.id :> requests[r].doc) @@ org_types
    /\ response' = Ok("org_type", requests[r].doc)
    /\ requests' = [q \in DOMAIN requests \ {r} |-> requests[q]]
    /\ UNCHANGED << organizations, leads, lead_stages, milestones, documents, lead_notes,
                    users, failing, uuids, sales_flow >>

delete_org_type(type_id) ==
    /\ IF startswith(type_id, "default-")
       THEN /\ response' = HttpError(400, "Cannot delete default type")
            /\ UNCHANGED org_types
       ELSE IF type_id \in DOMAIN org_types
       THEN /\ org_types' = [t \in DOMAIN org_types \ {type_id} |-> org_types[t]]
            /\ response' = Ok("message", "Type deleted")
       ELSE /\ response' = HttpError(404, "Type not found")
            /\ UNCHANGED org_types
    /\ UNCHANGED << organizations, leads, lead_stages, milestones, documents, lead_notes,
                    users, requests, failing, uuids, sales_flow >>

create_lead_stage(stage) ==
    LET existing == find_one_name(lead_stages, upper(stage.name))
    IN  IF existing \/ \E s \in Range(DEFAULT_LEAD_STAGES) : s.name = upper(stage.name)
        THEN /\ response' = HttpError(400, "Stage already exists")
             /\ UNCHANGED << organizations, leads, lead_stages, milestones, documents,
                             lead_notes, uuids, platform >>
        ELSE LET stage_id == uuid4(uuids.stage + 1)
                 stage_doc == [id |-> stage_id, name |-> upper(stage.name),
                               order |-> stage.order]
             IN  /\ lead_stages' = (stage_id :> stage_doc) @@ lead_stages
                 /\ uuids' = [uuids EXCEPT !.stage = @ + 1]
                 /\ response' = Ok("lead_stage", stage_doc)
                 /\ UNCHANGED << organizations, leads, milestones, documents, lead_notes,
                                 platform >>

\* create_lead_stage, one step per await: the find_one and the check on it
create_lead_stage_find_one(r, stage) ==
    /\ r \notin DOMAIN requests
    /\ LET existing == find_one_name(lead_stages, upper(stage.name))
       IN  IF existing \/ \E s \in Range(DEFAULT_LEAD_STAGES) : s.name = upper(stage.name)
           THEN /\ response' = HttpError(400, "Stage already exists")
                /\ UNCHANGED << requests, uuids >>
           ELSE LET stage_id == uuid4(uuids.stage + 1)
                    stage_doc == [id |-> stage_id, name |-> upper(stage.name),
                                  order |-> stage.order]
                IN  /\ requests' = (r :> [route |-> "create_lead_stage",
                                          pc |-> "insert_one", doc |-> stage_doc])
                                        @@ requests
                    /\ uuids' = [uuids EXCEPT !.stage = @ + 1]
                    /\ UNCHANGED response
    /\ UNCHANGED << organizations, leads, lead_stages, milestones, documents, lead_notes,
                    users, org_types, failing, sales_flow >>

\* `await db.lead_stages.insert_one(stage_doc)`, then the response
create_lead_stage_insert_one(r) ==
    /\ r \in DOMAIN requests
    /\ requests[r].route = "create_lead_stage"
    /\ requests[r].pc = "insert_one"
    /\ lead_stages' = (requests[r].doc.id :> requests[r].doc) @@ lead_stages
    /\ response' = Ok("lead_stage", requests[r].doc)
    /\ requests' = [q \in DOMAIN requests \ {r} |-> requests[q]]
    /\ UNCHANGED << organizations, leads, milestones, documents, lead_notes,
                    users, org_types, failing, uuids, sales_flow >>

delete_lead_stage(stage_id) ==
    /\ IF startswith(stage_id, "stage-")
       THEN /\ response' = HttpError(400, "Cannot delete default stage")
            /\ UNCHANGED lead_stages
       ELSE IF stage_id \in DOMAIN lead_stages
       THEN /\ lead_stages' = [s \in DOMAIN lead_stages \ {stage_id} |-> lead_stages[s]]
            /\ response' = Ok("message", "Stage deleted")
       ELSE /\ response' = HttpError(404, "Stage not found")
            /\ UNCHANGED lead_stages
    /\ UNCHANGED << organizations, leads, milestones, documents, lead_notes, uuids,
                    platform >>

\* ---------------------------------------------------------------- analytics
\* get_lead_stages: the default stages followed by the custom ones; the
\* dashboard only uses the names as dictionary keys.
get_lead_stages_defaults == Range(DEFAULT_LEAD_STAGES)

get_lead_stages ==
    Range(DEFAULT_LEAD_STAGES) \cup { lead_stages[s] : s \in DOMAIN lead_stages }

\* db.leads.count_documents(filter), the filter given as the set of the
\* ids of the matching leads
count_documents(matching) == Cardinality(matching)

monthly_revenue_pipeline_slip(scope) ==
    LET matched == { l \in scope :
                        /\ leads[l].agreed_price # None
                        /\ leads[l].expected_volume # None }
        monthly == [ l \in matched |->
                        Val(leads[l].agreed_price) * Val(leads[l].expected_volume) ]
    IN  IF matched = {} THEN 0 ELSE SumF(monthly, matched)

\* the $match / $project / $group pipeline summing agreed_price * expected_volume
\* over the WON leads among `scope` (the ids of the leads that pass the
\* organization_id criterion, all leads for the dashboard); to_list(1) is
\* empty when nothing matches
monthly_revenue_pipeline(scope) ==
    LET matched == { l \in scope :
                        /\ leads[l].status = "WON"
                        /\ leads[l].agreed_price # None
                        /\ leads[l].expected_volume # None }
        monthly == [ l \in matched |->
                        Val(leads[l].agreed_price) * Val(leads[l].expected_volume) ]
    IN  IF matched = {} THEN 0 ELSE SumF(monthly, matched)

IfNull(o, default) == IF o = None THEN default ELSE Val(o)

\* leads by stage: one count per registered stage name
leads_by_stage ==
    LET stage_names == { s.name : s \in get_lead_stages }
    IN  [ stage \in stage_names |->
            count_documents({ l \in DOMAIN leads : leads[l].stage = stage }) ]

\* leads by status
leads_by_status_slip ==
    [ s \in {"OPEN", "WON", "LOST"} |->
        count_documents({ l \in DOMAIN leads :
                            leads[l].status = s /\ leads[l].status # "LOST" }) ]

leads_by_status ==
    [ s \in {"OPEN", "WON", "LOST"} |->
        count_documents({ l \in DOMAIN leads : leads[l].status = s }) ]

leads_by_org_type_slip ==
    [ org_type \in { t.name : t \in get_org_types } |->
        LET org_ids == to_list({ o \in DOMAIN organizations :
                                   organizations[o].type = org_type },
                               TO_LIST_LENGTH)
            in_orgs == { l \in DOMAIN leads : leads[l].organization_id \in org_ids }
        IN  IF org_ids # {} THEN count_documents(in_orgs) ELSE 0 ]

\* leads by org type: a join through the ids of the organizations of a type
leads_by_org_type ==
    LET all_org_types == { organizations[o].type : o \in DOMAIN organizations }
    IN  [ org_type \in all_org_types |->
            LET org_ids == to_list({ o \in DOMAIN organizations :
                                       organizations[o].type = org_type },
                                   TO_LIST_LENGTH)
                in_orgs == { l \in DOMAIN leads : leads[l].organization_id \in org_ids }
            IN  IF org_ids # {} THEN count_documents(in_orgs) ELSE 0 ]

\* pipeline value: $sum of offered_price over {status: OPEN, offered_price: {$ne: None}}
pipeline_value_slip ==
    LET matched == { l \in DOMAIN leads : leads[l].offered_price # None }
    IN  IF matched = {} THEN 0
        ELSE SumF([ l \in matched |-> Val(leads[l].offered_price) ], matched)

pipeline_value ==
    LET matched == { l \in DOMAIN leads :
                        leads[l].status = "OPEN" /\ leads[l].offered_price # None }
    IN  IF matched = {} THEN 0
        ELSE SumF([ l \in matched |-> Val(leads[l].offered_price) ], matched)

\* revenue calculations: one $group over {status: WON} with $ifNull defaults
revenue_result_slip ==
    LET won == { l \in DOMAIN leads :
                    leads[l].status = "WON" /\ leads[l].expected_volume # None }
    IN  IF won = {}
        THEN [ won_offered |-> 0, won_agreed |-> 0, total_volume |-> 0 ]
        ELSE [ won_offered |-> SumF([ l \in won |-> IfNull(leads[l].offered_price, 0) ], won),
               won_agreed |-> SumF([ l \in won |-> IfNull(leads[l].agreed_price, 0) ], won),
               total_volume |-> SumF([ l \in won |-> IfNull(leads[l].expected_volume, 0) ], won) ]

revenue_result ==
    LET won == { l \in DOMAIN leads : leads[l].status = "WON" }
    IN  IF won = {}
        THEN [ won_offered |-> 0, won_agreed |-> 0, total_volume |-> 0 ]
        ELSE [ won_offered |-> SumF([ l \in won |-> IfNull(leads[l].offered_price, 0) ], won),
               won_agreed |-> SumF([ l \in won |-> IfNull(leads[l].agreed_price, 0) ], won),
               total_volume |-> SumF([ l \in won |-> IfNull(leads[l].expected_volume, 0) ], won) ]

\* win rate in tenths of a percent: round(WON / total_closed * 100, 1)
win_rate_slip(by_status) ==
    LET total == by_status["OPEN"] + by_status["WON"] + by_status["LOST"]
    IN  IF total > 0 THEN RoundDiv(by_status["WON"] * 100 * 10, total) ELSE 0

win_rate(by_status) ==
    LET total_closed == by_status["WON"] + by_status["LOST"]
    IN  IF total_closed > 0
        THEN RoundDiv(by_status["WON"] * 100 * 10, total_closed)
        ELSE 0

\* average probability in tenths: $avg of probability over {status: OPEN},
\* then round(avg, 1) if avg else 0
avg_probability_slip ==
    LET open == DOMAIN leads
        total == SumF([ l \in open |-> leads[l].probability ], open)
    IN  IF open # {} /\ total # 0 THEN RoundDiv(total * 10, Cardinality(open)) ELSE 0

avg_probability ==
    LET open == { l \in DOMAIN leads : leads[l].status = "OPEN" }
        total == SumF([ l \in open |-> leads[l].probability ], open)
    IN  IF open # {} /\ total # 0 THEN RoundDiv(total * 10, Cardinality(open)) ELSE 0

dashboard_analytics ==
    LET monthly_revenue == monthly_revenue_pipeline(DOMAIN leads)
        annual_revenue == monthly_revenue * 12
        total_volume == revenue_result.total_volume
    IN  [ total_leads |-> Cardinality(DOMAIN leads),
          total_organizations |-> Cardinality(DOMAIN organizations),
          leads_by_stage |-> leads_by_stage,
          leads_by_status |-> leads_by_status,
          leads_by_org_type |-> leads_by_org_type,
          pipeline_value |-> pipeline_value,
          won_offered |-> revenue_result.won_offered,
          won_agreed |-> revenue_result.won_agreed,
          monthly_revenue |-> Round2Money(monthly_revenue),
          annual_revenue |-> Round2Money(annual_revenue),
          total_volume |-> total_volume,
          daily_data_load_gb |-> RoundDiv(total_volume * AVG_SCAN_SIZE_MB * 100, 1024 * 30),
          monthly_data_load_gb |-> RoundDiv(total_volume * AVG_SCAN_SIZE_MB * 100, 1024),
          win_rate |-> win_rate(leads_by_status),
          avg_probability |-> avg_probability ]

\* the store queries of the request, by the call that issues them
DashboardQueryNames ==
    { "leads.count_documents({})", "organizations.count_documents({})",
      "lead_stages.find({})", "leads.count_documents({stage})",
      "leads.count_documents({status})", "organizations.distinct(type)",
      "organizations.find({type})", "leads.count_documents({organization_id})",
      "leads.aggregate(pipeline)", "leads.aggregate(revenue)",
      "leads.aggregate(monthly)", "leads.aggregate(avg)" }

dashboard_queries_slip ==
    (DashboardQueryNames \ { "leads.aggregate(avg)" })
        \ (IF organizations = EmptyCollection
            THEN { "organizations.find({type})", "leads.count_documents({organization_id})" }
            ELSE {})

\* the queries the request issues in the current state: the two inside
\* `for org_type in all_org_types` run only when an organization exists
\* (org_ids is then never empty); there is always a stage and a status
dashboard_queries ==
    DashboardQueryNames
        \ (IF organizations = EmptyCollection
            THEN { "organizations.find({type})", "leads.count_documents({organization_id})" }
            ELSE {})

get_dashboard_analytics_purge ==
    /\ IF dashboard_queries \cap failing # {}
       THEN response' = HttpError(500, "Internal Server Error")
       ELSE response' = Ok("dashboard", dashboard_analytics)
    /\ leads' = [ l \in { k \in DOMAIN leads :
                            leads[k].organization_id \in DOMAIN organizations } |-> leads[l] ]
    /\ UNCHANGED << organizations, lead_stages, milestones, documents, lead_notes, uuids, platform >>

\* an exception raised by a query is not caught in the handler, so the
\* request ends with the framework's 500 response and no body
get_dashboard_analytics ==
    /\ IF dashboard_queries \cap failing # {}
       THEN response' = HttpError(500, "Internal Server Error")
       ELSE response' = Ok("dashboard", dashboard_analytics)
    /\ UNCHANGED << organizations, leads, lead_stages, milestones, documents, lead_notes, uuids, platform >>

\* get_dashboard_analytics, in steps that each read the store as it is when
\* they run; request r is suspended between them.
\* `total_leads = await db.leads.count_documents({})`
get_dashboard_analytics_total_leads(r) ==
    /\ r \notin DOMAIN requests
    /\ requests' = (r :> [route |-> "get_dashboard_analytics", pc |-> "leads_by_stage",
                          total_leads |-> count_documents(DOMAIN leads)]) @@ requests
    /\ UNCHANGED << organizations, leads, lead_stages, milestones, documents, lead_notes,
                    users, org_types, failing, uuids, sales_flow, response >>

\* total_orgs, the stage list and the count of each stage
get_dashboard_analytics_leads_by_stage(r) ==
    /\ r \in DOMAIN requests
    /\ requests[r].route = "get_dashboard_analytics"
    /\ requests[r].pc = "leads_by_stage"
    /\ requests' = [requests EXCEPT ![r] =
                       [route |-> "get_dashboard_analytics", pc |-> "OPEN",
                        total_leads |-> requests[r].total_leads,
                        total_organizations |-> Cardinality(DOMAIN organizations),
                        leads_by_stage |-> leads_by_stage,
                        leads_by_status |-> [ s \in {} |-> 0 ]]]
    /\ UNCHANGED << organizations, leads, lead_stages, milestones, documents, lead_notes,
                    users, org_types, failing, uuids, sales_flow, response >>

\* `{s: await db.leads.count_documents({"status": s}) for s in ["OPEN", "WON",
\* "LOST"]}`: one await for each status, in that order
get_dashboard_analytics_leads_by_status(r) ==
    /\ r \in DOMAIN requests
    /\ requests[r].route = "get_dashboard_analytics"
    /\ requests[r].pc \in { "OPEN", "WON", "LOST" }
    /\ LET s == requests[r].pc
           counted == (s :> count_documents({ l \in DOMAIN leads : leads[l].status = s }))
                          @@ requests[r].leads_by_status
           next == CASE s = "OPEN" -> "WON" [] s = "WON" -> "LOST" [] s = "LOST" -> "aggregate"
       IN  requests' = [requests EXCEPT ![r].leads_by_status = counted, ![r].pc = next]
    /\ UNCHANGED << organizations, leads, lead_stages, milestones, documents, lead_notes,
                    users, org_types, failing, uuids, sales_flow, response >>

\* leads_by_org_type and the aggregations, then the report built from what
\* each step has read
get_dashboard_analytics_aggregate(r) ==
    /\ r \in DOMAIN requests
    /\ requests[r].route = "get_dashboard_analytics"
    /\ requests[r].pc = "aggregate"
    /\ response' = Ok("dashboard",
                      [ dashboard_analytics EXCEPT
                          !.total_leads = requests[r].total_leads,
                          !.total_organizations = requests[r].total_organizations,
                          !.leads_by_stage = requests[r].leads_by_stage,
                          !.leads_by_status = requests[r].leads_by_status,
                          !.win_rate = win_rate(requests[r].leads_by_status) ])
    /\ requests' = [q \in DOMAIN requests \ {r} |-> requests[q]]
    /\ UNCHANGED << organizations, leads, lead_stages, milestones, documents, lead_notes,
                    users, org_types, failing, uuids, sales_flow >>

\* state-wise aggregation over the fixed region list
geography_analytics_skip ==
    [ state \in { st \in Range(INDIAN_STATES) :
                    \E o \in DOMAIN organizations : organizations[o].state = st } |->
        LET org_ids == to_list({ o \in DOMAIN organizations :
                                   organizations[o].state = state }, TO_LIST_LENGTH)
            InState == { l \in DOMAIN leads : leads[l].organization_id \in org_ids }
        IN  [ organizations |-> Cardinality(org_ids),
              leads |-> count_documents(InState),
              monthly_revenue |-> Round2Money(monthly_revenue_pipeline(InState)) ] ]

geography_analytics_unscoped ==
    [ state \in Range(INDIAN_STATES) |->
        LET org_ids == to_list({ o \in DOMAIN organizations :
                                   organizations[o].state = state }, TO_LIST_LENGTH)
            InState == { l \in DOMAIN leads : leads[l].organization_id \in org_ids }
        IN  IF org_ids # {}
            THEN [ organizations |-> Cardinality(org_ids),
                   leads |-> count_documents(InState),
                   monthly_revenue |-> Round2Money(monthly_revenue_pipeline(DOMAIN leads)) ]
            ELSE [ organizations |-> 0, leads |-> 0, monthly_revenue |-> 0 ] ]

geography_analytics ==
    [ state \in Range(INDIAN_STATES) |->
        LET org_ids == to_list({ o \in DOMAIN organizations :
                                   organizations[o].state = state }, TO_LIST_LENGTH)
            InState == { l \in DOMAIN leads : leads[l].organization_id \in org_ids }
        IN  IF org_ids # {}
            THEN [ organizations |-> Cardinality(org_ids),
                   leads |-> count_documents(InState),
                   monthly_revenue |-> Round2Money(monthly_revenue_pipeline(InState)) ]
            ELSE [ organizations |-> 0, leads |-> 0, monthly_revenue |-> 0 ] ]

get_geography_analytics_prune ==
    /\ response' = Ok("geography", geography_analytics)
    /\ organizations' = [ o \in { k \in DOMAIN organizations : lead_count(k) # 0 } |->
                            organizations[o] ]
    /\ UNCHANGED << leads, lead_stages, milestones, documents, lead_notes, uuids, platform >>

get_geography_analytics ==
    /\ response' = Ok("geography", geography_analytics)
    /\ UNCHANGED << organizations, leads, lead_stages, milestones, documents, lead_notes, uuids, platform >>

\* ------------------------------------------------------------ request inputs
\* the LeadCreate defaults (stage, probability, status) and absent optionals
LeadCreateDefaults ==
    [ organization_id |-> 1, offered_price |-> None, agreed_price |-> None,
      expected_volume |-> None, stage |-> "IDENTIFIED", probability |-> 10,
      status |-> "OPEN" ]

\* a LeadUpdate that supplies nothing
LeadUpdateEmpty == [ k \in LeadUpdateFields |-> None ]

\* a LeadUpdate that supplies exactly the field k
LeadUpdateOne(k, v) == [ LeadUpdateEmpty EXCEPT ![k] = Some(v) ]

\* status is a free string in LeadCreate / LeadUpdate
StatusInputs == { "OPEN", "WON", "LOST", "ON_HOLD" }
ProbabilityInputs == { 10, 75 }

\* -------------------------------------------------------------------------
\* Spec: leads that differ in status and probability, one organization.
\* -------------------------------------------------------------------------
StatusLeadIds == 1 .. MaxLeads

StatusLeadInputs ==
    { [ LeadCreateDefaults EXCEPT !.status = s, !.probability = p ] :
        s \in StatusInputs, p \in ProbabilityInputs }

StatusUpdateInputs ==
    { LeadUpdateEmpty }
        \cup { LeadUpdateOne("status", s) : s \in StatusInputs }
        \cup { LeadUpdateOne("probability", p) : p \in ProbabilityInputs }

CreateOrganization ==
    /\ uuids.org < 1
    /\ create_organization([type |-> "HOSPITAL", state |-> "Goa"])

CreateLead ==
    /\ uuids.lead < MaxLeads
    /\ \E lead \in StatusLeadInputs : create_lead(lead)

UpdateLead ==
    \E lead_id \in StatusLeadIds, update \in StatusUpdateInputs :
        update_lead(lead_id, update)

DeleteLead == \E lead_id \in StatusLeadIds : delete_lead(lead_id)

GetDashboard == get_dashboard_analytics

Next ==
    \/ CreateOrganization
    \/ CreateLead
    \/ UpdateLead
    \/ DeleteLead
    \/ GetDashboard

Spec == Init /\ [][Next]_vars

\* -------------------------------------------------------------------------
\* SpecRevenue: two leads that differ in status, prices and volume.
\* Prices are in mills: 4 is a price below one cent, 1000 a whole unit.
\* -------------------------------------------------------------------------
RevenueLeadIds == { 1, 2 }

OfferedPriceInputs == { None, Some(0), Some(1000) }
AgreedPriceInputs == { None, Some(0), Some(4), Some(1000) }
VolumeInputs == { None } \cup { Some(v) : v \in 0 .. MaxVolume }

RevenueLeadInputs ==
    { [ LeadCreateDefaults EXCEPT !.status = s, !.offered_price = o,
                                  !.agreed_price = a, !.expected_volume = v ] :
        s \in {"OPEN", "WON", "LOST"}, o \in OfferedPriceInputs,
        a \in AgreedPriceInputs, v \in VolumeInputs }

RevenueUpdateInputs ==
    { LeadUpdateOne("status", s) : s \in {"OPEN", "WON", "LOST"} }
        \cup { LeadUpdateOne("offered_price", Val(o)) : o \in OfferedPriceInputs \ {None} }
        \cup { LeadUpdateOne("agreed_price", Val(a)) : a \in AgreedPriceInputs \ {None} }
        \cup { LeadUpdateOne("expected_volume", Val(v)) : v \in VolumeInputs \ {None} }

RevCreateOrganization ==
    /\ uuids.org < 1
    /\ create_organization([type |-> "NGO", state |-> "Delhi"])

RevCreateLead ==
    /\ uuids.lead + 1 \in RevenueLeadIds
    /\ \E lead \in RevenueLeadInputs : create_lead(lead)

RevUpdateLead ==
    \E lead_id \in RevenueLeadIds, update \in RevenueUpdateInputs :
        update_lead(lead_id, update)

RevGetLead == \E lead_id \in RevenueLeadIds : get_lead(lead_id)

RevGetLeads == get_leads(None, None, None)

RevGetDashboard == get_dashboard_analytics

NextRevenue ==
    \/ RevCreateOrganization
    \/ RevCreateLead
    \/ RevUpdateLead
    \/ RevGetLead
    \/ RevGetLeads
    \/ RevGetDashboard

SpecRevenue == Init /\ [][NextRevenue]_vars

\* -------------------------------------------------------------------------
\* SpecCalc: the derived-metrics calculator on bounded inputs.  Prices are
\* whole currency units (multiples of 1000 mills) and one sub-cent price.
\* -------------------------------------------------------------------------
CalcPriceInputs == { 1000 * p : p \in 0 .. MaxCalcPrice } \cup { 4 }
CalcVolumeInputs == 0 .. MaxCalcVolume

Calculate ==
    /\ \E price \in CalcPriceInputs, volume \in CalcVolumeInputs :
          response' = Ok("computed", [ price |-> price, volume |-> volume,
                                        computed |-> calculate_revenue_and_load(price, volume) ])
    /\ UNCHANGED << organizations, leads, lead_stages, milestones, documents, lead_notes, uuids, platform >>

NextCalc == Calculate

SpecCalc == Init /\ [][NextCalc]_vars

\* -------------------------------------------------------------------------
\* SpecGeo: organizations in two regions, two leads; organizations and leads
\* are created and deleted.
\* -------------------------------------------------------------------------
GeoOrgIds == 1 .. MaxOrgs
GeoLeadIds == { 1, 2 }

GeoOrgInputs == [ type : {"HOSPITAL"}, state : {"Goa", "Delhi"} ]

GeoLeadInputs ==
    { [ LeadCreateDefaults EXCEPT !.organization_id = o, !.status = s,
                                  !.agreed_price = pv[1], !.expected_volume = pv[2] ] :
        o \in GeoOrgIds, s \in {"OPEN", "WON"},
        pv \in { << None, None >>, << Some(4), Some(1) >>,
                 << Some(1000), Some(1) >>, << Some(1000), None >> } }

GeoCreateOrganization ==
    /\ uuids.org < MaxOrgs
    /\ \E org \in GeoOrgInputs : create_organization(org)

GeoDeleteOrganization == \E org_id \in GeoOrgIds : delete_organization(org_id)

GeoCreateLead ==
    /\ uuids.lead + 1 \in GeoLeadIds
    /\ \E lead \in GeoLeadInputs : create_lead(lead)

GeoDeleteLead == \E lead_id \in GeoLeadIds : delete_lead(lead_id)

GeoGetGeography == get_geography_analytics

NextGeo ==
    \/ GeoCreateOrganization
    \/ GeoDeleteOrganization
    \/ GeoCreateLead
    \/ GeoDeleteLead
    \/ GeoGetGeography

SpecGeo == Init /\ [][NextGeo]_vars

\* -------------------------------------------------------------------------
\* SpecStages: the lead-stage registry changes while leads move between
\* stages; one organization.
\* -------------------------------------------------------------------------
StageLeadIds == { 1, 2 }

StageNameInputs == { "Negotiation", "negotiation", "demo" }

StageInputs == { [name |-> n, order |-> 7] : n \in StageNameInputs }

StageIdInputs == { uuid4(n) : n \in 1 .. MaxStages } \cup { "stage-demo" }

LeadStageInputs == { "IDENTIFIED", "NEGOTIATION" }

StageLeadInputs == { [ LeadCreateDefaults EXCEPT !.stage = st ] : st \in LeadStageInputs }

StageUpdateInputs == { LeadUpdateOne("stage", st) : st \in LeadStageInputs }

StgCreateOrganization ==
    /\ uuids.org < 1
    /\ create_organization([type |-> "HOSPITAL", state |-> "Goa"])

StgCreateLead ==
    /\ uuids.lead < 2
    /\ \E lead \in StageLeadInputs : create_lead(lead)

StgUpdateLead ==
    \E lead_id \in StageLeadIds, update \in StageUpdateInputs : update_lead(lead_id, update)

StgDeleteLead == \E lead_id \in StageLeadIds : delete_lead(lead_id)

StgCreateLeadStage ==
    /\ uuids.stage < MaxStages
    /\ \E stage \in StageInputs : create_lead_stage(stage)

StgDeleteLeadStage == \E stage_id \in StageIdInputs : delete_lead_stage(stage_id)

StgGetDashboard == get_dashboard_analytics

NextStages ==
    \/ StgCreateOrganization
    \/ StgCreateLead
    \/ StgUpdateLead
    \/ StgDeleteLead
    \/ StgCreateLeadStage
    \/ StgDeleteLeadStage
    \/ StgGetDashboard

SpecStages == Init /\ [][NextStages]_vars

\* -------------------------------------------------------------------------
\* SpecOrgs: two organizations that differ in type, created, retyped and
\* deleted while leads are attached to them.
\* -------------------------------------------------------------------------
OrgIds == { 1, 2 }

OrgLeadIds == { 1, 2 }

OrgTypeInputs == { "HOSPITAL", "NGO" }

OrgInputs == { [type |-> t, state |-> "Goa"] : t \in OrgTypeInputs }

OrgUpdateInputs ==
    { [type |-> None, state |-> None] }
        \cup { [type |-> Some(t), state |-> None] : t \in OrgTypeInputs }

OrgFilterInputs == { None, Some("all"), Some("NGO") }

OrgLeadInputs == { [ LeadCreateDefaults EXCEPT !.organization_id = o ] : o \in OrgIds }

OrgCreateOrganization ==
    /\ uuids.org < 2
    /\ \E org \in OrgInputs : create_organization(org)

OrgUpdateOrganization ==
    \E org_id \in OrgIds, org \in OrgUpdateInputs : update_organization(org_id, org)

OrgDeleteOrganization == \E org_id \in OrgIds : delete_organization(org_id)

OrgGetOrganization == \E org_id \in OrgIds : get_organization(org_id)

OrgGetOrganizations == \E type \in OrgFilterInputs : get_organizations(type, None)

OrgCreateLead ==
    /\ uuids.lead < 2
    /\ \E lead \in OrgLeadInputs : create_lead(lead)

OrgDeleteLead == \E lead_id \in OrgLeadIds : delete_lead(lead_id)

OrgGetDashboard == get_dashboard_analytics

NextOrgs ==
    \/ OrgCreateOrganization
    \/ OrgUpdateOrganization
    \/ OrgDeleteOrganization
    \/ OrgGetOrganization
    \/ OrgGetOrganizations
    \/ OrgCreateLead
    \/ OrgDeleteLead
    \/ OrgGetDashboard

SpecOrgs == Init /\ [][NextOrgs]_vars

\* -------------------------------------------------------------------------
\* SpecReports: both reports over a store in which organizations, leads,
\* notes, a custom stage and a custom type come and go.
\* -------------------------------------------------------------------------
RepOrgIds == { 1, 2 }

RepLeadIds == { 1, 2 }

RepOrgInputs == { [type |-> "HOSPITAL", state |-> "Goa"], [type |-> "CLINIC", state |-> "Delhi"] }

RepLeadInputs ==
    { [ LeadCreateDefaults EXCEPT !.organization_id = o, !.status = "WON",
                                  !.agreed_price = Some(1000),
                                  !.expected_volume = Some(1) ] : o \in RepOrgIds }

RepCreateOrganization ==
    /\ uuids.org < 2
    /\ \E org \in RepOrgInputs : create_organization(org)

RepDeleteOrganization == \E org_id \in RepOrgIds : delete_organization(org_id)

RepCreateLead ==
    /\ uuids.lead < 2
    /\ \E lead \in RepLeadInputs : create_lead(lead)

RepDeleteLead == \E lead_id \in RepLeadIds : delete_lead(lead_id)

RepCreateLeadNote ==
    /\ uuids.note < 1
    /\ \E lead_id \in RepLeadIds : create_lead_note([lead_id |-> lead_id, content |-> "call"])

RepCreateLeadStage ==
    /\ uuids.stage < 1
    /\ create_lead_stage([name |-> "Negotiation", order |-> 7])

RepCreateOrgType ==
    /\ uuids.org_type < 1
    /\ create_org_type([name |-> "Clinic"])

RepGetDashboard == get_dashboard_analytics

RepGetGeography == get_geography_analytics

NextReports ==
    \/ RepCreateOrganization
    \/ RepDeleteOrganization
    \/ RepCreateLead
    \/ RepDeleteLead
    \/ RepCreateLeadNote
    \/ RepCreateLeadStage
    \/ RepCreateOrgType
    \/ RepGetDashboard
    \/ RepGetGeography

SpecReports == Init /\ [][NextReports]_vars

\* -------------------------------------------------------------------------
\* SpecFault: the store starts and stops raising on one of the dashboard's
\* queries; writes are made while the store is healthy.
\* -------------------------------------------------------------------------
FaultLeadIds == { 1, 2 }

FaultLeadInputs == { [ LeadCreateDefaults EXCEPT !.status = s ] : s \in { "OPEN", "WON" } }

\* a query of the store starts to raise
StoreFails ==
    /\ failing = {}
    /\ \E query \in DashboardQueryNames : failing' = { query }
    /\ UNCHANGED << organizations, leads, lead_stages, milestones, documents, lead_notes,
                    users, org_types, requests, uuids, response, sales_flow >>

StoreRecovers ==
    /\ failing # {}
    /\ failing' = {}
    /\ UNCHANGED << organizations, leads, lead_stages, milestones, documents, lead_notes,
                    users, org_types, requests, uuids, response, sales_flow >>

FltCreateOrganization ==
    /\ failing = {}
    /\ uuids.org < 1
    /\ create_organization([type |-> "HOSPITAL", state |-> "Goa"])

FltCreateLead ==
    /\ failing = {}
    /\ uuids.lead < 2
    /\ \E lead \in FaultLeadInputs : create_lead(lead)

FltDeleteLead ==
    /\ failing = {}
    /\ \E lead_id \in FaultLeadIds : delete_lead(lead_id)

FltGetDashboard == get_dashboard_analytics

NextFault ==
    \/ StoreFails
    \/ StoreRecovers
    \/ FltCreateOrganization
    \/ FltCreateLead
    \/ FltDeleteLead
    \/ FltGetDashboard

SpecFault == Init /\ [][NextFault]_vars

\* -------------------------------------------------------------------------
\* SpecRegister: register requests that interleave at their awaits.
\* -------------------------------------------------------------------------
RequestIds == { 1, 2 }

RegisterInputs ==
    { [email |-> "a@flux.io", password |-> "pw"], [email |-> "b@flux.io", password |-> "pw"] }

RegFindOne ==
    /\ uuids.user + Cardinality(DOMAIN requests) < MaxUsers
    /\ \E r \in RequestIds, user \in RegisterInputs : register_find_one(r, user)

RegCountDocuments == \E r \in RequestIds : register_count_documents(r)

RegInsertOne == \E r \in RequestIds : register_insert_one(r)

NextRegister ==
    \/ RegFindOne
    \/ RegCountDocuments
    \/ RegInsertOne

SpecRegister == Init /\ [][NextRegister]_vars

\* -------------------------------------------------------------------------
\* SpecLabels: create_org_type and create_lead_stage requests that
\* interleave at their awaits.
\* -------------------------------------------------------------------------
TypeNameInputs == { "Clinic", "clinic", "ngo" }

TypeInputs == { [name |-> n] : n \in TypeNameInputs }

LblCreateOrgTypeFindOne ==
    /\ uuids.org_type < MaxLabels
    /\ \E r \in RequestIds, org_type \in TypeInputs : create_org_type_find_one(r, org_type)

LblCreateOrgTypeInsertOne == \E r \in RequestIds : create_org_type_insert_one(r)

LblCreateLeadStageFindOne ==
    /\ uuids.stage < MaxLabels
    /\ \E r \in RequestIds, stage \in StageInputs : create_lead_stage_find_one(r, stage)

LblCreateLeadStageInsertOne == \E r \in RequestIds : create_lead_stage_insert_one(r)

NextLabels ==
    \/ LblCreateOrgTypeFindOne
    \/ LblCreateOrgTypeInsertOne
    \/ LblCreateLeadStageFindOne
    \/ LblCreateLeadStageInsertOne

SpecLabels == Init /\ [][NextLabels]_vars

\* -------------------------------------------------------------------------
\* SpecTeam: accounts registered and invited, then managed through the team
\* routes by callers of every role.
\* -------------------------------------------------------------------------
TeamUserIds == { 1, 2, 3 }

TeamCredentials == { create_token(u) : u \in TeamUserIds }

TeamRoleInputs == { "user", "manager", "admin" }

TeamInviteInputs ==
    { [email |-> "c@flux.io", password |-> "pw", role |-> role] : role \in TeamRoleInputs }

TeamUpdateInputs ==
    { [is_active |-> None, role |-> None],
      [is_active |-> Some(FALSE), role |-> None],
      [is_active |-> None, role |-> Some("admin")],
      [is_active |-> None, role |-> Some("user")] }

TeamRegister ==
    /\ uuids.user < 3
    /\ \E user \in RegisterInputs : register(user)

TeamGetMembers == \E credentials \in TeamCredentials : get_team_members(credentials)

TeamInvite ==
    /\ uuids.user < 3
    /\ \E member \in TeamInviteInputs, credentials \in TeamCredentials :
          invite_team_member(member, credentials)

TeamUpdate ==
    \E member_id \in TeamUserIds, update \in TeamUpdateInputs,
       credentials \in TeamCredentials :
        update_team_member(member_id, update, credentials)

TeamRemove ==
    \E member_id \in TeamUserIds, credentials \in TeamCredentials :
        remove_team_member(member_id, credentials)

NextTeam ==
    \/ TeamRegister
    \/ TeamGetMembers
    \/ TeamInvite
    \/ TeamUpdate
    \/ TeamRemove

SpecTeam == Init /\ [][NextTeam]_vars

\* -------------------------------------------------------------------------
\* SpecUpdates: two organizations and two leads, updated one or several
\* fields at a time.
\* -------------------------------------------------------------------------
UpdOrgIds == { 1, 2 }

UpdLeadIds == { 1, 2 }

UpdOrgUpdateInputs ==
    { [type |-> None, state |-> None],
      [type |-> Some("NGO"), state |-> None],
      [type |-> Some("NGO"), state |-> Some("Delhi")] }

UpdLeadUpdateInputs ==
    { LeadUpdateEmpty,
      [ LeadUpdateEmpty EXCEPT !.status = Some("WON"), !.probability = Some(75) ],
      LeadUpdateOne("agreed_price", 0) }

UpdCreateOrganization ==
    /\ uuids.org < 2
    /\ create_organization([type |-> "HOSPITAL", state |-> "Goa"])

UpdUpdateOrganization ==
    \E org_id \in UpdOrgIds, org \in UpdOrgUpdateInputs : update_organization(org_id, org)

UpdCreateLead ==
    /\ uuids.lead < 2
    /\ create_lead([ LeadCreateDefaults EXCEPT !.offered_price = Some(1000) ])

UpdUpdateLead ==
    \E lead_id \in UpdLeadIds, update \in UpdLeadUpdateInputs : update_lead(lead_id, update)

NextUpdates ==
    \/ UpdCreateOrganization
    \/ UpdUpdateOrganization
    \/ UpdCreateLead
    \/ UpdUpdateLead

SpecUpdates == Init /\ [][NextUpdates]_vars

\* create_lead_note, one step per await: the find_one on the lead and the check on it
create_lead_note_find_one(r, note) ==
    /\ r \notin DOMAIN requests
    /\ IF note.lead_id \notin DOMAIN leads
       THEN /\ response' = HttpError(404, "Lead not found")
            /\ UNCHANGED << requests, uuids >>
       ELSE LET new_id == uuids.note + 1
                new_doc == [id |-> new_id, lead_id |-> note.lead_id, content |-> note.content]
            IN  /\ requests' = (r :> [route |-> "create_lead_note", pc |-> "insert_one",
                                      doc |-> new_doc]) @@ requests
                /\ uuids' = [uuids EXCEPT !.note = new_id]
                /\ UNCHANGED response
    /\ UNCHANGED << organizations, leads, lead_stages, milestones, documents, lead_notes,
                    users, org_types, failing, sales_flow >>

\* `await db.lead_notes.insert_one(...)`, then the response
create_lead_note_insert_one(r) ==
    /\ r \in DOMAIN requests
    /\ requests[r].route = "create_lead_note"
    /\ requests[r].pc = "insert_one"
    /\ lead_notes' = (requests[r].doc.id :> requests[r].doc) @@ lead_notes
    /\ response' = Ok("lead_note", requests[r].doc)
    /\ requests' = [q \in DOMAIN requests \ {r} |-> requests[q]]
    /\ UNCHANGED << organizations, leads, lead_stages, milestones, documents,
                    users, org_types, failing, sales_flow, uuids >>

\* create_milestone, one step per await: the find_one on the lead and the check on it
create_milestone_find_one(r, milestone) ==
    /\ r \notin DOMAIN requests
    /\ IF milestone.lead_id \notin DOMAIN leads
       THEN /\ response' = HttpError(404, "Lead not found")
            /\ UNCHANGED << requests, uuids >>
       ELSE LET new_id == uuids.milestone + 1
                new_doc == [id |-> new_id, lead_id |-> milestone.lead_id,
                            name |-> milestone.name, status |-> milestone.status]
            IN  /\ requests' = (r :> [route |-> "create_milestone", pc |-> "insert_one",
                                      doc |-> new_doc]) @@ requests
                /\ uuids' = [uuids EXCEPT !.milestone = new_id]
                /\ UNCHANGED response
    /\ UNCHANGED << organizations, leads, lead_stages, milestones, documents, lead_notes,
                    users, org_types, failing, sales_flow >>

\* `await db.milestones.insert_one(...)`, then the response
create_milestone_insert_one(r) ==
    /\ r \in DOMAIN requests
    /\ requests[r].route = "create_milestone"
    /\ requests[r].pc = "insert_one"
    /\ milestones' = (requests[r].doc.id :> requests[r].doc) @@ milestones
    /\ response' = Ok("milestone", requests[r].doc)
    /\ requests' = [q \in DOMAIN requests \ {r} |-> requests[q]]
    /\ UNCHANGED << organizations, leads, lead_stages, documents, lead_notes,
                    users, org_types, failing, sales_flow, uuids >>

\* create_document, one step per await: the find_one on the lead and the check on it
create_document_find_one(r, doc) ==
    /\ r \notin DOMAIN requests
    /\ IF doc.lead_id \notin DOMAIN leads
       THEN /\ response' = HttpError(404, "Lead not found")
            /\ UNCHANGED << requests, uuids >>
       ELSE LET new_id == uuids.document + 1
                new_doc == [id |-> new_id, lead_id |-> doc.lead_id, type |-> doc.type,
                            custom_name |-> doc.custom_name, status |-> doc.status]
            IN  /\ requests' = (r :> [route |-> "create_document", pc |-> "insert_one",
                                      doc |-> new_doc]) @@ requests
                /\ uuids' = [uuids EXCEPT !.document = new_id]
                /\ UNCHANGED response
    /\ UNCHANGED << organizations, leads, lead_stages, milestones, documents, lead_notes,
                    users, org_types, failing, sales_flow >>

\* `await db.documents.insert_one(...)`, then the response
create_document_insert_one(r) ==
    /\ r \in DOMAIN requests
    /\ requests[r].route = "create_document"
    /\ requests[r].pc = "insert_one"
    /\ documents' = (requests[r].doc.id :> requests[r].doc) @@ documents
    /\ response' = Ok("document", requests[r].doc)
    /\ requests' = [q \in DOMAIN requests \ {r} |-> requests[q]]
    /\ UNCHANGED << organizations, leads, lead_stages, milestones, lead_notes,
                    users, org_types, failing, sales_flow, uuids >>

\* delete_lead, one step per await: `await db.leads.delete_one(...)` and the
\* check on its deleted_count
delete_lead_delete_one(r, lead_id) ==
    /\ r \notin DOMAIN requests
    /\ IF lead_id \in DOMAIN leads
       THEN /\ leads' = [l \in DOMAIN leads \ {lead_id} |-> leads[l]]
            /\ requests' = (r :> [route |-> "delete_lead", pc |-> "milestones",
                                  lead_id |-> lead_id]) @@ requests
            /\ UNCHANGED response
       ELSE /\ response' = HttpError(404, "Lead not found")
            /\ UNCHANGED << leads, requests >>
    /\ UNCHANGED << organizations, lead_stages, milestones, documents, lead_notes, users,
                    org_types, failing, sales_flow, uuids >>

\* the three awaited delete_many of delete_lead, in the order of the code;
\* the response follows the last one
delete_lead_delete_many(r) ==
    /\ r \in DOMAIN requests
    /\ requests[r].route = "delete_lead"
    /\ LET lead_id == requests[r].lead_id
       IN  CASE requests[r].pc = "milestones" ->
                    /\ milestones' = delete_many(milestones, lead_id)
                    /\ requests' = [requests EXCEPT ![r].pc = "documents"]
                    /\ UNCHANGED << documents, lead_notes, response >>
             [] requests[r].pc = "documents" ->
                    /\ documents' = delete_many(documents, lead_id)
                    /\ requests' = [requests EXCEPT ![r].pc = "lead_notes"]
                    /\ UNCHANGED << milestones, lead_notes, response >>
             [] requests[r].pc = "lead_notes" ->
                    /\ lead_notes' = delete_many(lead_notes, lead_id)
                    /\ requests' = [q \in DOMAIN requests \ {r} |-> requests[q]]
                    /\ response' = Ok("message", "Lead deleted")
                    /\ UNCHANGED << milestones, documents >>
    /\ UNCHANGED << organizations, leads, lead_stages, users, org_types, failing,
                    sales_flow, uuids >>

\* -------------------------------------------------------------------------
\* SpecOrphans: the child routes and delete_lead, one step per await, with
\* up to two requests in flight.
\* -------------------------------------------------------------------------
OrpLeadIds == { 1 }

OrpCreateOrganization ==
    /\ uuids.org < 1
    /\ create_organization([type |-> "HOSPITAL", state |-> "Goa"])

OrpCreateLead ==
    /\ uuids.lead < 1
    /\ create_lead(LeadCreateDefaults)

OrpCreateMilestoneFindOne ==
    /\ uuids.milestone < 1
    /\ \E r \in RequestIds, lead_id \in OrpLeadIds :
          create_milestone_find_one(r, [lead_id |-> lead_id, name |-> "Pilot",
                                        status |-> "PENDING"])

OrpCreateMilestoneInsertOne == \E r \in RequestIds : create_milestone_insert_one(r)

OrpCreateDocumentFindOne ==
    /\ uuids.document < 1
    /\ \E r \in RequestIds, lead_id \in OrpLeadIds :
          create_document_find_one(r, [lead_id |-> lead_id, type |-> "NDA",
                                       custom_name |-> None, status |-> "DRAFT"])

OrpCreateDocumentInsertOne == \E r \in RequestIds : create_document_insert_one(r)

OrpCreateLeadNoteFindOne ==
    /\ uuids.note < 1
    /\ \E r \in RequestIds, lead_id \in OrpLeadIds :
          create_lead_note_find_one(r, [lead_id |-> lead_id, content |-> "call"])

OrpCreateLeadNoteInsertOne == \E r \in RequestIds : create_lead_note_insert_one(r)

OrpDeleteLeadDeleteOne ==
    \E r \in RequestIds, lead_id \in OrpLeadIds : delete_lead_delete_one(r, lead_id)

OrpDeleteLeadDeleteMany == \E r \in RequestIds : delete_lead_delete_many(r)

NextOrphans ==
    \/ OrpCreateOrganization
    \/ OrpCreateLead
    \/ OrpCreateMilestoneFindOne
    \/ OrpCreateMilestoneInsertOne
    \/ OrpCreateDocumentFindOne
    \/ OrpCreateDocumentInsertOne
    \/ OrpCreateLeadNoteFindOne
    \/ OrpCreateLeadNoteInsertOne
    \/ OrpDeleteLeadDeleteOne
    \/ OrpDeleteLeadDeleteMany

SpecOrphans == Init /\ [][NextOrphans]_vars

\* -------------------------------------------------------------------------
\* SpecRefs: organizations and leads created, updated and deleted one
\* request at a time; create_lead also names an organization never stored.
\* -------------------------------------------------------------------------
RefOrgIds == { 1, 2, 3 }

RefLeadIds == { 1, 2 }

RefCreateOrganization ==
    /\ uuids.org < 2
    /\ create_organization([type |-> "HOSPITAL", state |-> "Goa"])

RefDeleteOrganization == \E org_id \in RefOrgIds : delete_organization(org_id)

RefCreateLead ==
    /\ uuids.lead < 2
    /\ \E org_id \in RefOrgIds :
          create_lead([LeadCreateDefaults EXCEPT !.organization_id = org_id])

RefUpdateLead ==
    \E lead_id \in RefLeadIds : update_lead(lead_id, LeadUpdateOne("status", "WON"))

RefDeleteLead == \E lead_id \in RefLeadIds : delete_lead(lead_id)

NextRefs ==
    \/ RefCreateOrganization
    \/ RefDeleteOrganization
    \/ RefCreateLead
    \/ RefUpdateLead
    \/ RefDeleteLead

SpecRefs == Init /\ [][NextRefs]_vars

\* -------------------------------------------------------------------------
\* SpecEmails: register and invite_team_member requests that interleave at
\* their awaits, over two email addresses.
\* -------------------------------------------------------------------------
EmlCredentials == { create_token(1), create_token(2) }

EmlInviteInputs ==
    { [email |-> email, password |-> "pw", role |-> "user"] :
        email \in { "a@flux.io", "b@flux.io" } }

EmlInviteRequireAdmin ==
    /\ uuids.user + Cardinality(DOMAIN requests) < MaxUsers
    /\ \E r \in RequestIds, member \in EmlInviteInputs, credentials \in EmlCredentials :
          invite_team_member_require_admin(r, member, credentials)

EmlInviteFindOne == \E r \in RequestIds : invite_team_member_find_one(r)

EmlInviteInsertOne == \E r \in RequestIds : invite_team_member_insert_one(r)

NextEmails ==
    \/ RegFindOne
    \/ RegCountDocuments
    \/ RegInsertOne
    \/ EmlInviteRequireAdmin
    \/ EmlInviteFindOne
    \/ EmlInviteInsertOne

SpecEmails == Init /\ [][NextEmails]_vars

\* -------------------------------------------------------------------------
\* SpecAdmins: two accounts, the second invited as admin or user, and
\* update_team_member / remove_team_member requests that interleave at
\* their awaits.
\* -------------------------------------------------------------------------
AdmUserIds == { 1, 2 }

AdmCredentials == { create_token(u) : u \in AdmUserIds }

AdmUpdateInputs ==
    { [is_active |-> None, role |-> None],
      [is_active |-> Some(FALSE), role |-> None],
      [is_active |-> None, role |-> Some("user")] }

AdmRegister ==
    /\ uuids.user < 1
    /\ register([email |-> "a@flux.io", password |-> "pw"])

AdmInvite ==
    /\ uuids.user < 2
    /\ \E role \in { "admin", "user" }, credentials \in AdmCredentials :
          invite_team_member([email |-> "b@flux.io", password |-> "pw", role |-> role],
                             credentials)

AdmUpdateRequireAdmin ==
    \E r \in RequestIds, member_id \in AdmUserIds, update \in AdmUpdateInputs,
       credentials \in AdmCredentials :
        update_team_member_require_admin(r, member_id, update, credentials)

AdmUpdateUpdateOne == \E r \in RequestIds : update_team_member_update_one(r)

AdmUpdateFindOne == \E r \in RequestIds : update_team_member_find_one(r)

AdmRemoveRequireAdmin ==
    \E r \in RequestIds, member_id \in AdmUserIds, credentials \in AdmCredentials :
        remove_team_member_require_admin(r, member_id, credentials)

AdmRemoveDeleteOne == \E r \in RequestIds : remove_team_member_delete_one(r)

NextAdmins ==
    \/ AdmRegister
    \/ AdmInvite
    \/ AdmUpdateRequireAdmin
    \/ AdmUpdateUpdateOne
    \/ AdmUpdateFindOne
    \/ AdmRemoveRequireAdmin
    \/ AdmRemoveDeleteOne

SpecAdmins == Init /\ [][NextAdmins]_vars

\* -------------------------------------------------------------------------
\* SpecAccess: two accounts that are deactivated, reactivated and removed,
\* and that log in and call authenticated routes in between; one request
\* at a time.
\* -------------------------------------------------------------------------
AccUserIds == { 1, 2 }

AccCredentials == { create_token(u) : u \in AccUserIds }

AccLoginInputs ==
    { [email |-> email, password |-> password] :
        email \in { "a@flux.io", "b@flux.io" }, password \in { "pw", "guess" } }

AccInviteInputs ==
    { [email |-> "b@flux.io", password |-> "pw", role |-> role] : role \in { "admin", "user" } }

AccUpdateInputs ==
    { [is_active |-> Some(FALSE), role |-> None], [is_active |-> Some(TRUE), role |-> None],
      [is_active |-> None, role |-> Some("admin")], [is_active |-> None, role |-> Some("manager")] }

AccRegister ==
    /\ uuids.user < 2
    /\ \E user \in RegisterInputs : register(user)

AccInvite ==
    /\ uuids.user < 2
    /\ \E member \in AccInviteInputs, credentials \in AccCredentials :
          invite_team_member(member, credentials)

AccUpdate ==
    \E member_id \in AccUserIds, update \in AccUpdateInputs, credentials \in AccCredentials :
        update_team_member(member_id, update, credentials)

AccRemove ==
    \E member_id \in AccUserIds, credentials \in AccCredentials :
        remove_team_member(member_id, credentials)

AccLogin == \E user \in AccLoginInputs : login(user)

AccGetMe == \E credentials \in AccCredentials : get_me(credentials)

AccGetMembers == \E credentials \in AccCredentials : get_team_members(credentials)

NextAccess ==
    \/ AccRegister
    \/ AccInvite
    \/ AccUpdate
    \/ AccRemove
    \/ AccLogin
    \/ AccGetMe
    \/ AccGetMembers

SpecAccess == Init /\ [][NextAccess]_vars

\* -------------------------------------------------------------------------
\* SpecSnapshot: a dashboard request suspended at its awaits while leads
\* are created, deleted and moved between OPEN, WON and LOST.
\* -------------------------------------------------------------------------
SnapLeadIds == { 1, 2 }

SnapCreateOrganization ==
    /\ uuids.org < 1
    /\ create_organization([type |-> "HOSPITAL", state |-> "Goa"])

SnapCreateLead ==
    /\ uuids.lead < 2
    /\ create_lead(LeadCreateDefaults)

SnapUpdateLead ==
    \E lead_id \in SnapLeadIds, status \in { "WON", "LOST" } :
        update_lead(lead_id, LeadUpdateOne("status", status))

SnapDeleteLead == \E lead_id \in SnapLeadIds : delete_lead(lead_id)

SnapTotalLeads ==
    /\ requests = EmptyCollection
    /\ get_dashboard_analytics_total_leads(1)

SnapLeadsByStage == \E r \in RequestIds : get_dashboard_analytics_leads_by_stage(r)

SnapLeadsByStatus == \E r \in RequestIds : get_dashboard_analytics_leads_by_status(r)

SnapAggregate == \E r \in RequestIds : get_dashboard_analytics_aggregate(r)

NextSnapshot ==
    \/ SnapCreateOrganization
    \/ SnapCreateLead
    \/ SnapUpdateLead
    \/ SnapDeleteLead
    \/ SnapTotalLeads
    \/ SnapLeadsByStage
    \/ SnapLeadsByStatus
    \/ SnapAggregate

SpecSnapshot == Init /\ [][NextSnapshot]_vars

\* -------------------------------------------------------------------------
\* SpecRegistry: org types and lead stages created, listed and deleted one
\* request at a time; the deletes name default ids, custom ids, and ids
\* that were never issued, with and without the reserved prefix.
\* -------------------------------------------------------------------------
RgyTypeIds == { "default-hospital", "default-corporate", "default-1", uuid4(1), uuid4(2) }

RgyStageIds == { "stage-identified", "stage-closed", "stage-1", uuid4(1), uuid4(2) }

RgyCreateOrgType ==
    /\ uuids.org_type < 2
    /\ \E org_type \in TypeInputs : create_org_type(org_type)

RgyDeleteOrgType == \E type_id \in RgyTypeIds : delete_org_type(type_id)

\* GET /org-types: the merged list as the response
RgyGetOrgTypes ==
    /\ response' = Ok("org_types", get_org_types)
    /\ UNCHANGED << organizations, leads, lead_stages, milestones, documents, lead_notes,
                    uuids, platform >>

RgyCreateLeadStage ==
    /\ uuids.stage < 2
    /\ \E stage \in StageInputs : create_lead_stage(stage)

RgyDeleteLeadStage == \E stage_id \in RgyStageIds : delete_lead_stage(stage_id)

\* GET /lead-stages: the merged list as the response
RgyGetLeadStages ==
    /\ response' = Ok("lead_stages", get_lead_stages)
    /\ UNCHANGED << organizations, leads, lead_stages, milestones, documents, lead_notes,
                    uuids, platform >>

NextRegistry ==
    \/ RgyCreateOrgType
    \/ RgyDeleteOrgType
    \/ RgyGetOrgTypes
    \/ RgyCreateLeadStage
    \/ RgyDeleteLeadStage
    \/ RgyGetLeadStages

SpecRegistry == Init /\ [][NextRegistry]_vars

\* -------------------------------------------------------------------------
\* SpecNoUpdate: one organization, lead, milestone, document and sales-flow
\* step; updates that supply nothing or one field, sent to the stored id
\* and to an id that was never issued.
\* -------------------------------------------------------------------------
NupIds == { 1, 2 }

NupOrganizationInputs ==
    { [type |-> None, state |-> None], [type |-> Some("NGO"), state |-> None] }

NupLeadInputs == { LeadUpdateEmpty, LeadUpdateOne("status", "WON") }

NupMilestoneInputs ==
    { [name |-> None, status |-> None], [name |-> None, status |-> Some("DONE")] }

NupDocumentInputs ==
    { [type |-> None, custom_name |-> None, status |-> None],
      [type |-> None, custom_name |-> None, status |-> Some("SIGNED")] }

NupSalesFlowInputs ==
    { [step_number |-> None, owner |-> None], [step_number |-> None, owner |-> Some("Ops")] }

NupCreateOrganization ==
    /\ uuids.org < 1
    /\ create_organization([type |-> "HOSPITAL", state |-> "Goa"])

NupCreateLead ==
    /\ uuids.lead < 1
    /\ create_lead(LeadCreateDefaults)

NupCreateMilestone ==
    /\ uuids.milestone < 1
    /\ create_milestone([lead_id |-> 1, name |-> "Pilot", status |-> "PENDING"])

NupCreateDocument ==
    /\ uuids.document < 1
    /\ create_document([lead_id |-> 1, type |-> "NDA", custom_name |-> None,
                        status |-> "DRAFT"])

NupCreateSalesFlow ==
    /\ uuids.flow < 1
    /\ create_sales_flow([player_type |-> "HOSPITAL", step_number |-> 1, owner |-> "Sales"])

NupUpdateOrganization ==
    \E org_id \in NupIds, org \in NupOrganizationInputs : update_organization(org_id, org)

NupUpdateLead ==
    \E lead_id \in NupIds, lead \in NupLeadInputs : update_lead(lead_id, lead)

NupUpdateMilestone ==
    \E milestone_id \in NupIds, milestone \in NupMilestoneInputs :
        update_milestone(milestone_id, milestone)

NupUpdateDocument ==
    \E doc_id \in NupIds, doc \in NupDocumentInputs : update_document(doc_id, doc)

NupUpdateSalesFlow ==
    \E flow_id \in NupIds, flow \in NupSalesFlowInputs : update_sales_flow(flow_id, flow)

NextNoUpdate ==
    \/ NupCreateOrganization
    \/ NupCreateLead
    \/ NupCreateMilestone
    \/ NupCreateDocument
    \/ NupCreateSalesFlow
    \/ NupUpdateOrganization
    \/ NupUpdateLead
    \/ NupUpdateMilestone
    \/ NupUpdateDocument
    \/ NupUpdateSalesFlow

SpecNoUpdate == Init /\ [][NextNoUpdate]_vars

\* -------------------------------------------------------------------------
\* SpecChildren: milestones, documents and notes attached to two leads,
\* deleted one by one or with their lead; one request at a time.
\* -------------------------------------------------------------------------
ChildLeadIds == { 1, 2 }

ChildIds == { 1, 2 }

ChCreateOrganization ==
    /\ uuids.org < 1
    /\ create_organization([type |-> "HOSPITAL", state |-> "Goa"])

ChCreateLead ==
    /\ uuids.lead < 2
    /\ create_lead(LeadCreateDefaults)

ChDeleteLead == \E lead_id \in ChildLeadIds : delete_lead(lead_id)

ChCreateMilestone ==
    /\ uuids.milestone < 2
    /\ \E lead_id \in ChildLeadIds :
          create_milestone([lead_id |-> lead_id, name |-> "Pilot", status |-> "PENDING"])

ChCreateDocument ==
    /\ uuids.document < 1
    /\ \E lead_id \in ChildLeadIds :
          create_document([lead_id |-> lead_id, type |-> "NDA", custom_name |-> None,
                           status |-> "DRAFT"])

ChCreateLeadNote ==
    /\ uuids.note < 1
    /\ \E lead_id \in ChildLeadIds : create_lead_note([lead_id |-> lead_id, content |-> "call"])

ChDeleteMilestone == \E milestone_id \in ChildIds : delete_milestone(milestone_id)

ChDeleteDocument == \E doc_id \in ChildIds : delete_document(doc_id)

ChDeleteLeadNote == \E note_id \in ChildIds : delete_lead_note(note_id)

NextChildren ==
    \/ ChCreateOrganization
    \/ ChCreateLead
    \/ ChDeleteLead
    \/ ChCreateMilestone
    \/ ChCreateDocument
    \/ ChCreateLeadNote
    \/ ChDeleteMilestone
    \/ ChDeleteDocument
    \/ ChDeleteLeadNote

SpecChildren == Init /\ [][NextChildren]_vars

\* ---------------------------------------------------------- checked claims
IsDashboard == response.kind = "dashboard"

\* the leads of the store with a given status
LeadsWithStatus(st) == { l \in DOMAIN leads : leads[l].status = st }

AllStatusesStandard == \A l \in DOMAIN leads : leads[l].status \in {"OPEN", "WON", "LOST"}

\* q is the rational n / d rounded to the nearest integer
IsRounded(q, n, d) ==
    LET diff == q * d - n IN 2 * (IF diff >= 0 THEN diff ELSE -diff) <= d

\* C1: when every lead's status is OPEN, WON or LOST, the three values of the
\* dashboard's leads_by_status sum to its total_leads.
C1_StatusCountsSumToTotal ==
    (IsDashboard /\ AllStatusesStandard) =>
        response.body.leads_by_status["OPEN"] + response.body.leads_by_status["WON"]
            + response.body.leads_by_status["LOST"] = response.body.total_leads

C1_Witness ==
    /\ IsDashboard
    /\ AllStatusesStandard
    /\ \A st \in {"OPEN", "WON", "LOST"} : LeadsWithStatus(st) # {}
    /\ response.body.total_leads = 3

\* C7: win_rate is 100 * WON / (WON + LOST) rounded to one decimal when some
\* lead is WON or LOST, and exactly 0 when none is, whatever the number of
\* OPEN leads; the report is never an error.
C7_WinRate ==
    IsDashboard =>
        LET won == Cardinality(LeadsWithStatus("WON"))
            lost == Cardinality(LeadsWithStatus("LOST"))
        IN  /\ response.status = 200
            /\ won + lost > 0 => IsRounded(response.body.win_rate, 1000 * won, won + lost)
            /\ won + lost = 0 => response.body.win_rate = 0

\* a report with one of three closed leads won (33.3 %) next to an OPEN lead
C7_Witness ==
    /\ IsDashboard
    /\ Cardinality(LeadsWithStatus("WON")) = 1
    /\ Cardinality(LeadsWithStatus("LOST")) = 1
    /\ LeadsWithStatus("OPEN") # {}
    /\ response.body.win_rate = 500

\* a report over OPEN leads only
C7_WitnessNoClosed ==
    /\ IsDashboard
    /\ Cardinality(LeadsWithStatus("OPEN")) >= 2
    /\ LeadsWithStatus("WON") = {} /\ LeadsWithStatus("LOST") = {}
    /\ response.body.win_rate = 0

\* C8: avg_probability is the mean probability of the OPEN leads rounded to
\* one decimal, 0 without OPEN leads; WON and LOST leads do not influence it.
C8_AvgProbability ==
    IsDashboard =>
        LET open == LeadsWithStatus("OPEN")
            total == SumF([ l \in open |-> leads[l].probability ], open)
        IN  /\ open # {} => IsRounded(response.body.avg_probability, 10 * total, Cardinality(open))
            /\ open = {} => response.body.avg_probability = 0

\* two OPEN leads of different probability next to a closed lead whose
\* probability differs from the reported mean
C8_Witness ==
    /\ IsDashboard
    /\ \E a, b \in LeadsWithStatus("OPEN") : leads[a].probability # leads[b].probability
    /\ \E c \in LeadsWithStatus("WON") \cup LeadsWithStatus("LOST") : leads[c].probability = 75
    /\ response.body.avg_probability = 425

\* ---- revenue claims (SpecRevenue)

WonLeads == LeadsWithStatus("WON")

\* the WON leads that have both agreed_price and expected_volume
WonWithBoth ==
    { l \in WonLeads : leads[l].agreed_price # None /\ leads[l].expected_volume # None }

\* sum of agreed_price * expected_volume over WonWithBoth, in mills
CommittedMonthly ==
    SumF([ l \in WonWithBoth |-> Val(leads[l].agreed_price) * Val(leads[l].expected_volume) ],
         WonWithBoth)

\* m is x rounded to two decimals: a whole number of cents nearest to x
IsRounded2(m, x) == m % 10 = 0 /\ IsRounded(m \div 10, x, 10)

\* C2 as stated: monthly_revenue is the sum of agreed_price * expected_volume
\* over the WON leads with both fields, 0 without such a lead, and
\* annual_revenue is 12 * monthly_revenue.
C2_MonthlyRevenueExact ==
    IsDashboard =>
        /\ response.body.monthly_revenue = CommittedMonthly
        /\ response.body.annual_revenue = 12 * response.body.monthly_revenue

\* C2 amended: monthly_revenue is that sum rounded to two decimals (0 without
\* such a lead) and annual_revenue is 12 times the sum, rounded to two
\* decimals; when the sum is a whole number of cents both are exact.
C2_MonthlyRevenueRounded ==
    IsDashboard =>
        /\ IsRounded2(response.body.monthly_revenue, CommittedMonthly)
        /\ IsRounded2(response.body.annual_revenue, 12 * CommittedMonthly)
        /\ WonWithBoth = {} => response.body.monthly_revenue = 0
        /\ CommittedMonthly % 10 = 0 =>
              /\ response.body.monthly_revenue = CommittedMonthly
              /\ response.body.annual_revenue = 12 * response.body.monthly_revenue

\* a WON lead with both fields, a WON lead missing one, and a non-zero revenue
C2_Witness ==
    /\ IsDashboard
    /\ WonWithBoth # {}
    /\ WonLeads \ WonWithBoth # {}
    /\ response.body.monthly_revenue = 1000
    /\ response.body.annual_revenue = 12000

\* an OPEN lead with both fields next to a WON one contributes nothing
C2_WitnessOpen ==
    /\ IsDashboard
    /\ \E l \in LeadsWithStatus("OPEN") :
          /\ Truthy(leads[l].agreed_price)
          /\ Truthy(leads[l].expected_volume)
    /\ response.body.monthly_revenue = 0

\* C3: pipeline_value is the sum of offered_price over the OPEN leads that
\* have an offered_price, and 0 when there is none; WON and LOST leads do not
\* contribute.
C3_PipelineValue ==
    IsDashboard =>
        LET open_priced == { l \in LeadsWithStatus("OPEN") : leads[l].offered_price # None }
        IN  response.body.pipeline_value =
                SumF([ l \in open_priced |-> Val(leads[l].offered_price) ], open_priced)

\* an OPEN lead with a price next to a closed lead with a price
C3_Witness ==
    /\ IsDashboard
    /\ \E l \in LeadsWithStatus("OPEN") : Truthy(leads[l].offered_price)
    /\ \E l \in WonLeads \cup LeadsWithStatus("LOST") : Truthy(leads[l].offered_price)
    /\ response.body.pipeline_value = 1000

\* C4: won_offered and won_agreed are the sums of offered_price and of
\* agreed_price over all WON leads, a missing price counting 0, whether or not
\* expected_volume is present; both are 0 without a WON lead.
C4_WonAggregates ==
    IsDashboard =>
        /\ response.body.won_offered =
              SumF([ l \in WonLeads |-> IfNull(leads[l].offered_price, 0) ], WonLeads)
        /\ response.body.won_agreed =
              SumF([ l \in WonLeads |-> IfNull(leads[l].agreed_price, 0) ], WonLeads)

\* a WON lead with agreed_price and no expected_volume: counted in won_agreed,
\* absent from monthly_revenue
C4_Witness ==
    /\ IsDashboard
    /\ \E l \in WonLeads :
          /\ Truthy(leads[l].agreed_price)
          /\ leads[l].expected_volume = None
          /\ leads[l].offered_price = None
    /\ response.body.won_agreed > 0
    /\ response.body.monthly_revenue = 0

\* the price the claim resolves for a lead: agreed_price when set, else
\* offered_price when set, else 0
ResolvedPrice(lead) ==
    IF lead.agreed_price # None THEN Val(lead.agreed_price)
    ELSE IF lead.offered_price # None THEN Val(lead.offered_price)
    ELSE 0

LeadResponses ==
    IF response.kind = "lead" THEN { response.body }
    ELSE IF response.kind = "leads" THEN Range(response.body)
    ELSE {}

\* C5: every lead returned by create_lead, get_lead, get_leads or update_lead
\* has its revenue derived from agreed_price whenever agreed_price is set
\* (0 included), else from offered_price when set, else from 0.
C5_AgreedPricePreferred ==
    \A r \in LeadResponses :
        r.computed.monthly_revenue =
            Round2Money(ResolvedPrice(r.lead) * IfNull(r.lead.expected_volume, 0))

\* ---- calculator claim (SpecCalc)

\* C6: for a whole price >= 0 and a volume >= 0, monthly_revenue is
\* price * volume and annual_revenue is 12 * monthly_revenue; with volume 0
\* all four outputs are 0 whatever the price.
C6_CalculatorRevenue ==
    response.kind = "computed" =>
        LET price == response.body.price
            volume == response.body.volume
            out == response.body.computed
        IN  /\ price % 1000 = 0 =>
                  /\ out.monthly_revenue = price * volume
                  /\ out.annual_revenue = 12 * out.monthly_revenue
            /\ volume = 0 =>
                  /\ out.monthly_revenue = 0
                  /\ out.annual_revenue = 0
                  /\ out.daily_data_load_gb = 0
                  /\ out.monthly_data_load_gb = 0

C6_Witness ==
    /\ response.kind = "computed"
    /\ response.body.price = 3000
    /\ response.body.volume = 7
    /\ response.body.computed.monthly_revenue = 21000
    /\ response.body.computed.annual_revenue = 252000

C6_WitnessZeroVolume ==
    /\ response.kind = "computed"
    /\ response.body.price > 0
    /\ response.body.volume = 0
    /\ response.body.computed.annual_revenue = 0

\* ---- geography claims (SpecGeo)

IsGeography == response.kind = "geography"

OrgsIn(state) == { o \in DOMAIN organizations : organizations[o].state = state }

LeadsIn(state) == { l \in DOMAIN leads : leads[l].organization_id \in OrgsIn(state) }

\* sum of agreed_price * expected_volume over the WON leads of the region's
\* organizations that have both fields, in mills
CommittedMonthlyIn(state) ==
    LET won == LeadsIn(state) \cap WonWithBoth
    IN  SumF([ l \in won |-> Val(leads[l].agreed_price) * Val(leads[l].expected_volume) ], won)

\* C9: the geography report has an entry for every region of the fixed list
\* and no other, whatever the collections hold; a region without
\* organization has organizations 0, leads 0, monthly_revenue 0.
C9_EveryRegionReported ==
    IsGeography =>
        /\ response.status = 200
        /\ DOMAIN response.body = Range(INDIAN_STATES)
        /\ \A state \in Range(INDIAN_STATES) :
              OrgsIn(state) = {} =>
                  response.body[state] = [ organizations |-> 0, leads |-> 0, monthly_revenue |-> 0 ]

\* a report over an empty organization collection with a lead left behind
C9_Witness ==
    /\ IsGeography
    /\ DOMAIN organizations = {}
    /\ DOMAIN leads # {}
    /\ response.body["Goa"].leads = 0

\* a report with one populated region and one empty region
C9_WitnessMixed ==
    /\ IsGeography
    /\ OrgsIn("Goa") # {}
    /\ OrgsIn("Delhi") = {}
    /\ response.body["Goa"].organizations > 0
    /\ response.body["Delhi"].organizations = 0

\* C10 as stated: a region with organizations reports their number, the
\* number of leads of those organizations, and as monthly_revenue the sum of
\* agreed_price * expected_volume over their WON leads with both fields.
C10_RegionTotalsExact ==
    IsGeography =>
        \A state \in Range(INDIAN_STATES) :
            OrgsIn(state) # {} =>
                /\ response.body[state].organizations = Cardinality(OrgsIn(state))
                /\ response.body[state].leads = Cardinality(LeadsIn(state))
                /\ response.body[state].monthly_revenue = CommittedMonthlyIn(state)

\* C10 amended: the same, with monthly_revenue the sum rounded to two
\* decimals (exact when the sum is a whole number of cents), for a region
\* whose organizations fit in one to_list(1000) page.
C10_RegionTotalsRounded ==
    IsGeography =>
        \A state \in Range(INDIAN_STATES) :
            (OrgsIn(state) # {} /\ Cardinality(OrgsIn(state)) <= TO_LIST_LENGTH) =>
                /\ response.body[state].organizations = Cardinality(OrgsIn(state))
                /\ response.body[state].leads = Cardinality(LeadsIn(state))
                /\ IsRounded2(response.body[state].monthly_revenue, CommittedMonthlyIn(state))
                /\ CommittedMonthlyIn(state) % 10 = 0 =>
                      response.body[state].monthly_revenue = CommittedMonthlyIn(state)

\* two regions with one organization each; Goa has a WON lead with both
\* fields, Delhi an OPEN lead
C10_Witness ==
    /\ IsGeography
    /\ Cardinality(OrgsIn("Goa")) = 1
    /\ Cardinality(OrgsIn("Delhi")) = 1
    /\ \E l \in LeadsIn("Goa") \cap WonWithBoth : TRUE
    /\ \E l \in LeadsIn("Delhi") : leads[l].status = "OPEN"
    /\ response.body["Goa"] = [ organizations |-> 1, leads |-> 1, monthly_revenue |-> 1000 ]
    /\ response.body["Delhi"] = [ organizations |-> 1, leads |-> 1, monthly_revenue |-> 0 ]

\* the names of the merged lead-stage registry: defaults and stored customs
StageLabels ==
    { s.name : s \in Range(DEFAULT_LEAD_STAGES) }
        \cup { lead_stages[s].name : s \in DOMAIN lead_stages }

C11_WitnessDeleted ==
    /\ IsDashboard
    /\ uuids.stage > 0
    /\ lead_stages = EmptyCollection
    /\ \E l \in DOMAIN leads : leads[l].stage = "NEGOTIATION"
    /\ "NEGOTIATION" \notin DOMAIN response.body.leads_by_stage

\* the existing organizations of a type
OrgsOfType(org_type) == { o \in DOMAIN organizations : organizations[o].type = org_type }

C15_LeadCount ==
    /\ response.kind = "organization" =>
          response.body.lead_count = Cardinality({ l \in DOMAIN leads :
              leads[l].organization_id = response.body.org.id })
    /\ response.kind = "organizations" =>
          \A o \in DOMAIN response.body :
              response.body[o].lead_count = Cardinality({ l \in DOMAIN leads :
                  leads[l].organization_id = response.body[o].org.id })

\* an organization returned by an update with two leads attached
C15_Witness ==
    /\ response.kind = "organization"
    /\ response.body.lead_count = 2
    /\ response.body.org.type = "NGO"
    /\ uuids.org = 1

\* a listing of two organizations with different counts
C15_WitnessListing ==
    /\ response.kind = "organizations"
    /\ \E o1, o2 \in DOMAIN response.body :
          response.body[o1].lead_count = 0 /\ response.body[o2].lead_count = 2

IsReport == response.kind \in { "dashboard", "geography" }

\* C13: a request that returns the dashboard report or the geography report
\* leaves every collection as it was: leads, organizations, lead stages, org
\* types, users, milestones, documents and notes.
C13_ReportsReadOnly ==
    [][ response'.kind \in { "dashboard", "geography" } =>
            UNCHANGED << leads, organizations, lead_stages, org_types, users,
                         milestones, documents, lead_notes, sales_flow >> ]_vars

\* a report computed over a store with something in every collection the
\* routes of this specification fill
C13_Witness ==
    /\ IsReport
    /\ leads # EmptyCollection
    /\ organizations # EmptyCollection
    /\ lead_stages # EmptyCollection
    /\ org_types # EmptyCollection
    /\ lead_notes # EmptyCollection

IssuedFailure ==
    \E query \in failing :
        query \in { "organizations.find({type})", "leads.count_documents({organization_id})" }
            => organizations # EmptyCollection

\* C17: while a query the dashboard issues is failing, a dashboard request
\* ends as a failed request (500, no body): it never returns a report,
\* partial or defaulted.
C17_FailsAsAWhole ==
    [][ (IssuedFailure /\ response' # response) =>
            /\ response'.kind = "error"
            /\ response'.status = 500 ]_vars

\* a failed dashboard request: the last aggregate raised, leads are stored
C17_Witness ==
    /\ failing = { "leads.aggregate(avg)" }
    /\ response.kind = "error"
    /\ response.status = 500
    /\ leads # EmptyCollection

\* C16: after any sequence of create_lead and update_lead calls every stored
\* lead has status OPEN, WON or LOST, so the three status buckets of the
\* dashboard partition the collection.
C16_StatusDomain ==
    /\ \A l \in DOMAIN leads : leads[l].status \in { "OPEN", "WON", "LOST" }
    /\ IsDashboard =>
          response.body.leads_by_status["OPEN"] + response.body.leads_by_status["WON"]
              + response.body.leads_by_status["LOST"] = response.body.total_leads

\* C18: in any sequence or interleaving of register calls that starts from
\* an empty user collection, exactly one stored user has role admin and
\* every other has role user.
C18_OneAdmin ==
    users # EmptyCollection =>
        /\ Cardinality({ u \in DOMAIN users : users[u].role = "admin" }) = 1
        /\ \A u \in DOMAIN users : users[u].role \in { "admin", "user" }

\* the entries of a merged registry, defaults first
MergedTypes == Range(DEFAULT_ORG_TYPES) \cup { org_types[t] : t \in DOMAIN org_types }
MergedStages == Range(DEFAULT_LEAD_STAGES) \cup { lead_stages[s] : s \in DOMAIN lead_stages }

\* C19: after any sequence or interleaving of create_org_type (and of
\* create_lead_stage) calls, no two entries of the merged registry have
\* names that are equal when case is ignored.
C19_UniqueLabels ==
    /\ \A a, b \in MergedTypes : a.id # b.id => upper(a.name) # upper(b.name)
    /\ \A a, b \in MergedStages : a.id # b.id => upper(a.name) # upper(b.name)

\* a request to a team route made with the given credentials
TeamRequest(credentials) ==
    \/ get_team_members(credentials)
    \/ \E member \in TeamInviteInputs : invite_team_member(member, credentials)
    \/ \E member_id \in TeamUserIds, update \in TeamUpdateInputs :
          update_team_member(member_id, update, credentials)
    \/ \E member_id \in TeamUserIds : remove_team_member(member_id, credentials)

\* the caller has an active account
Authenticated(credentials) ==
    credentials.sub \in DOMAIN users /\ users[credentials.sub].is_active

\* C20: a request to get_team_members, invite_team_member,
\* update_team_member or remove_team_member succeeds or changes the user
\* collection only when the caller's role is admin; for an authenticated
\* caller of any other role the response is 403 and the user collection
\* is unchanged.
C20_TeamAdminOnly ==
    [][ \A credentials \in TeamCredentials :
          TeamRequest(credentials) =>
            /\ (Authenticated(credentials) /\ users[credentials.sub].role # "admin")
                  => (response'.status = 403 /\ users' = users)
            /\ (response'.status = 200 \/ users' # users)
                  => (Authenticated(credentials) /\ users[credentials.sub].role = "admin")
      ]_vars

\* a manager invited by the admin was refused on a team route
C20_Witness ==
    /\ response = HttpError(403, "Admin access required")
    /\ \E u \in DOMAIN users : users[u].role = "manager" /\ users[u].is_active
    /\ \E u \in DOMAIN users : users[u].role = "admin"

\* the update supplies field k with a non-null value
Supplied(update, k) == k \in DOMAIN update /\ update[k] # None

\* the fields a document stores as Optional values
OptionalFields == { "offered_price", "agreed_price", "expected_volume", "custom_name" }

\* document `after` is document `before` with exactly the supplied fields set
SetExactly(before, after, update) ==
    /\ DOMAIN after = DOMAIN before
    /\ \A k \in DOMAIN before :
          after[k] = IF Supplied(update, k)
                     THEN (IF k \in OptionalFields THEN update[k] ELSE Val(update[k]))
                     ELSE before[k]

\* C21: a successful update_organization or update_lead sets exactly the
\* fields supplied with a non-null value; every other field of the document
\* (id, lead_code, organization_id among them) and every other document,
\* of this and of every other collection, is unchanged.
C21_UpdateSetsSuppliedOnly ==
    [][ /\ \A org_id \in UpdOrgIds, org \in UpdOrgUpdateInputs :
              (update_organization(org_id, org) /\ response'.status = 200) =>
                  /\ DOMAIN organizations' = DOMAIN organizations
                  /\ SetExactly(organizations[org_id], organizations'[org_id], org)
                  /\ \A o \in DOMAIN organizations \ {org_id} :
                        organizations'[o] = organizations[o]
                  /\ leads' = leads
        /\ \A lead_id \in UpdLeadIds, update \in UpdLeadUpdateInputs :
              (update_lead(lead_id, update) /\ response'.status = 200) =>
                  /\ DOMAIN leads' = DOMAIN leads
                  /\ SetExactly(leads[lead_id], leads'[lead_id], update)
                  /\ \A l \in DOMAIN leads \ {lead_id} : leads'[l] = leads[l]
                  /\ organizations' = organizations ]_vars

\* a lead updated in two fields at once beside a lead left as created, with
\* an organization retyped beside one left as created
C21_Witness ==
    /\ response.kind = "lead"
    /\ response.body.lead.status = "WON"
    /\ response.body.lead.probability = 75
    /\ response.body.lead.offered_price = Some(1000)
    /\ \E l \in DOMAIN leads : leads[l].status = "OPEN"
    /\ \E o \in DOMAIN organizations : organizations[o].type = "NGO"
    /\ \E o \in DOMAIN organizations : organizations[o].type = "HOSPITAL"

\* the documents of a child collection that refer to a lead other than lead_id
ChildrenOfOthers(collection, lead_id) ==
    { collection[c] : c \in { d \in DOMAIN collection : collection[d].lead_id # lead_id } }

\* after the step no child of lead_id is left and the children of the other
\* leads are the same documents as before
Cascaded(before, after, lead_id) ==
    /\ \A c \in DOMAIN after : after[c].lead_id # lead_id
    /\ { after[c] : c \in DOMAIN after } = ChildrenOfOthers(before, lead_id)

\* C22: a delete_lead of lead L that succeeds, run with no other operation,
\* leaves no milestone, document or note with lead_id L and leaves the
\* children of the other leads as they were; a delete of a child succeeds
\* only for a child whose lead is stored, so deleting a child of a deleted
\* lead answers 404.
C22_DeleteLeadCascades ==
    [][ /\ \A lead_id \in ChildLeadIds :
              (delete_lead(lead_id) /\ response'.status = 200) =>
                  /\ lead_id \notin DOMAIN leads'
                  /\ Cascaded(milestones, milestones', lead_id)
                  /\ Cascaded(documents, documents', lead_id)
                  /\ Cascaded(lead_notes, lead_notes', lead_id)
        /\ \A child_id \in ChildIds :
              /\ (delete_milestone(child_id) /\ response'.status = 200)
                    => milestones[child_id].lead_id \in DOMAIN leads
              /\ (delete_document(child_id) /\ response'.status = 200)
                    => documents[child_id].lead_id \in DOMAIN leads
              /\ (delete_lead_note(child_id) /\ response'.status = 200)
                    => lead_notes[child_id].lead_id \in DOMAIN leads ]_vars

\* a lead was deleted with its children; a milestone of the other lead is
\* still stored
C22_Witness ==
    /\ response = Ok("message", "Lead deleted")
    /\ uuids.milestone = 2
    /\ uuids.note = 1
    /\ lead_notes = EmptyCollection
    /\ Cardinality(DOMAIN milestones) = 1
    /\ Cardinality(DOMAIN leads) = 1

\* the child documents (milestones, documents, notes) whose lead is not stored
Orphans ==
    { milestones[m] : m \in { c \in DOMAIN milestones : milestones[c].lead_id \notin DOMAIN leads } }
        \cup { documents[d] : d \in { c \in DOMAIN documents : documents[c].lead_id \notin DOMAIN leads } }
        \cup { lead_notes[n] : n \in { c \in DOMAIN lead_notes : lead_notes[c].lead_id \notin DOMAIN leads } }

\* C23: in every state with no request in flight, reached by any
\* interleaving of create_milestone, create_document, create_lead_note and
\* delete_lead, every stored milestone, document and note refers to a
\* stored lead.
C23_NoOrphans == requests = EmptyCollection => Orphans = {}

\* C24: after any sequence of create_organization, delete_organization,
\* create_lead, update_lead and delete_lead, the organization_id of every
\* stored lead is the id of a stored organization.
C24_LeadsHaveOrganization ==
    \A l \in DOMAIN leads : leads[l].organization_id \in DOMAIN organizations

\* C25: after any sequence or interleaving of register and
\* invite_team_member calls, no two stored users have the same email.
C25_UniqueEmails ==
    \A u, v \in DOMAIN users : users[u].email = users[v].email => u = v

\* some stored user is an active admin
ActiveAdmin == \E u \in DOMAIN users : users[u].role = "admin" /\ users[u].is_active

\* C26: the first registered user is an admin, so once a user id has been
\* issued an admin has existed; from then on every state with no request in
\* flight holds at least one active admin, under any interleaving of
\* update_team_member and remove_team_member.
C26_ActiveAdminRemains ==
    (uuids.user >= 1 /\ requests = EmptyCollection) => ActiveAdmin

\* the stored accounts that are deactivated
Deactivated == { u \in DOMAIN users : ~ users[u].is_active }

\* a request that carries the token `credentials` to an authenticated route
AuthenticatedRequest(credentials) ==
    \/ get_me(credentials)
    \/ get_team_members(credentials)
    \/ \E member \in AccInviteInputs : invite_team_member(member, credentials)
    \/ \E member_id \in AccUserIds, update \in AccUpdateInputs :
          update_team_member(member_id, update, credentials)
    \/ \E member_id \in AccUserIds : remove_team_member(member_id, credentials)

\* the request is answered `refusal` and no collection changes
Refused(refusal) ==
    /\ response' = refusal
    /\ UNCHANGED << organizations, leads, lead_stages, milestones, documents, lead_notes,
                    uuids, platform >>

C28_ReportSumsUnderWrites ==
    /\ AllStatusesStandard
    /\ IsDashboard =>
          response.body.total_leads =
              SumF(response.body.leads_by_status, DOMAIN response.body.leads_by_status)

\* the ids of the default org types and of the default lead stages
DefaultTypeIds == { "default-hospital", "default-ngo", "default-govt", "default-corporate" }
DefaultStageIds ==
    { "stage-identified", "stage-qualified", "stage-demo", "stage-pilot",
      "stage-commercial", "stage-closed" }

\* the two registries are as before the step and the answer has `status`
RegistryKept(status) ==
    /\ response'.status = status
    /\ UNCHANGED << org_types, lead_stages >>

\* a listing carries every default entry: four org types, six lead stages
DefaultsListed ==
    /\ response.kind = "org_types" =>
          { t \in response.body : t.id \in DefaultTypeIds } = Range(DEFAULT_ORG_TYPES)
    /\ response.kind = "lead_stages" =>
          { st \in response.body : st.id \in DefaultStageIds } = Range(DEFAULT_LEAD_STAGES)
    /\ Cardinality(Range(DEFAULT_ORG_TYPES)) = 4
    /\ Cardinality(Range(DEFAULT_LEAD_STAGES)) = 6

\* C29 as stated: the listings keep every default, a delete of a default id
\* is answered 400 and a delete of any id that is neither a default's nor a
\* stored entry's is answered 404, and neither removes anything.
C29_UnknownIdIs404 ==
    [][ /\ DefaultsListed
        /\ \A type_id \in RgyTypeIds :
              delete_org_type(type_id) =>
                  /\ type_id \in DefaultTypeIds => RegistryKept(400)
                  /\ type_id \notin DefaultTypeIds \cup DOMAIN org_types => RegistryKept(404)
        /\ \A stage_id \in RgyStageIds :
              delete_lead_stage(stage_id) =>
                  /\ stage_id \in DefaultStageIds => RegistryKept(400)
                  /\ stage_id \notin DefaultStageIds \cup DOMAIN lead_stages
                        => RegistryKept(404) ]_vars

\* the ids of the model that carry the reserved prefix of a registry
ReservedTypeIds == DefaultTypeIds \cup { "default-1" }
ReservedStageIds == DefaultStageIds \cup { "stage-1" }

\* C29, amended: the listings keep every default; a delete whose id carries
\* the reserved prefix ("default-" for org types, "stage-" for lead stages)
\* is answered 400, a default's id or not; a delete of any other id that
\* is not stored is answered 404; neither removes anything.
C29_ReservedIdIs400 ==
    [][ /\ DefaultsListed
        /\ \A type_id \in RgyTypeIds :
              delete_org_type(type_id) =>
                  /\ type_id \in ReservedTypeIds => RegistryKept(400)
                  /\ type_id \notin ReservedTypeIds \cup DOMAIN org_types => RegistryKept(404)
        /\ \A stage_id \in RgyStageIds :
              delete_lead_stage(stage_id) =>
                  /\ stage_id \in ReservedStageIds => RegistryKept(400)
                  /\ stage_id \notin ReservedStageIds \cup DOMAIN lead_stages
                        => RegistryKept(404) ]_vars

\* a custom stage is stored and a delete was just refused for a default
C29_Witness ==
    /\ response = HttpError(400, "Cannot delete default stage")
    /\ lead_stages # EmptyCollection
    /\ org_types # EmptyCollection

\* the update supplies no non-null field
SuppliesNothing(update) == \A k \in DOMAIN update : update[k] = None

\* the request is answered `status`; no document is created and none changes
Kept(status) ==
    /\ response'.status = status
    /\ UNCHANGED << organizations, leads, lead_stages, milestones, documents, lead_notes,
                    sales_flow, users, org_types, uuids >>

\* C30 as stated, for one update step: 400 when nothing is supplied, 404
\* when the id is not stored
Answers400And404(step, update, stored) ==
    step => /\ SuppliesNothing(update) => Kept(400)
            /\ ~ stored => Kept(404)

\* C30, amended, for one update step: 400 when nothing is supplied, 404
\* when something is supplied and the id is not stored
Answers400Then404(step, update, stored) ==
    step => /\ SuppliesNothing(update) => Kept(400)
            /\ (~ SuppliesNothing(update) /\ ~ stored) => Kept(404)

\* C30 as stated: an update of an organization, lead, milestone, document
\* or sales-flow step that supplies no non-null field is answered 400, one
\* that targets an id that is not stored is answered 404, and in both cases
\* no document is created or changed.
C30_EmptyIs400MissingIs404 ==
    [][ \A id \in NupIds :
          /\ \A org \in NupOrganizationInputs :
                Answers400And404(update_organization(id, org), org,
                                 id \in DOMAIN organizations)
          /\ \A lead \in NupLeadInputs :
                Answers400And404(update_lead(id, lead), lead, id \in DOMAIN leads)
          /\ \A milestone \in NupMilestoneInputs :
                Answers400And404(update_milestone(id, milestone), milestone,
                                 id \in DOMAIN milestones)
          /\ \A doc \in NupDocumentInputs :
                Answers400And404(update_document(id, doc), doc, id \in DOMAIN documents)
          /\ \A flow \in NupSalesFlowInputs :
                Answers400And404(update_sales_flow(id, flow), flow,
                                 id \in DOMAIN sales_flow) ]_vars

\* C30, amended: such an update is answered 400 when it supplies no
\* non-null field, whether or not the id is stored, and 404 when it
\* supplies one and the id is not stored; in both cases no document is
\* created or changed.
C30_EmptyIs400ElseMissingIs404 ==
    [][ \A id \in NupIds :
          /\ \A org \in NupOrganizationInputs :
                Answers400Then404(update_organization(id, org), org,
                                  id \in DOMAIN organizations)
          /\ \A lead \in NupLeadInputs :
                Answers400Then404(update_lead(id, lead), lead, id \in DOMAIN leads)
          /\ \A milestone \in NupMilestoneInputs :
                Answers400Then404(update_milestone(id, milestone), milestone,
                                  id \in DOMAIN milestones)
          /\ \A doc \in NupDocumentInputs :
                Answers400Then404(update_document(id, doc), doc, id \in DOMAIN documents)
          /\ \A flow \in NupSalesFlowInputs :
                Answers400Then404(update_sales_flow(id, flow), flow,
                                  id \in DOMAIN sales_flow) ]_vars

\* one document of each kind is stored and an update was answered 404
C30_Witness ==
    /\ response = HttpError(404, "Sales flow not found")
    /\ organizations # EmptyCollection
    /\ leads # EmptyCollection
    /\ milestones # EmptyCollection
    /\ documents # EmptyCollection
    /\ sales_flow # EmptyCollection

====
